---- MODULE Spec2Model ----
(***************************************************************************)
(* Model of the crank selection and pop-assembly logic of                  *)
(* src/src/sbv2.ts (CrankAccount.peakReady, CrankAccount.pop,              *)
(* LeaseAccount.fromSeed / loadData, ProgramStateAccount.fromSeed).        *)
(*                                                                         *)
(* Values are modelled as the JavaScript runtime sees them:                *)
(*   - a PublicKey is its byte buffer (AddrLen bytes instead of 32);       *)
(*   - an anchor.BN compared with < or <= is first converted to its        *)
(*     decimal string (BN has no valueOf), and the strings are compared    *)
(*     code unit by code unit;                                             *)
(*   - a Buffer compared with < is first decoded as UTF-8 text;            *)
(*   - Array.prototype.sort is run as the engine runs it; with a           *)
(*     comparator that returns a boolean the order depends on the engine,  *)
(*     so each caller carries the engine it runs on.                       *)
(***************************************************************************)
EXTENDS Integers, Sequences, FiniteSets, TLC

(***************************************************************************)
(* Bounds of the model.                                                    *)
(***************************************************************************)
\* Longest pqData array of the cranks enumerated by InitSelect.
MaxRows == 2
\* peakReady is called with a limit n in 1..MaxLimit.
MaxLimit == 2

(***************************************************************************)
(* The state.                                                              *)
(***************************************************************************)
VARIABLES
  crankStore,   \* the crank account in the remote store, or NoAccount
  leaseStore,   \* lease address -> lease account data, or NoAccount
  clock,        \* the wall clock (milliseconds)
  engine,       \* caller -> the sort of the JavaScript engine it runs on
  call,         \* caller -> the call it is executing and its local variables
  prev,         \* the last peakReady call that returned (its arguments and result)
  submitted,    \* the crankPop requests handed to program.rpc, in order
  decimal,      \* SwitchboardDecimal operands and the results of eq and toBig
  derived,      \* the fromSeed calls made so far and their results
  curve,        \* which candidate addresses lie on the ed25519 curve
  constructed,  \* the constructor call that made the wrapper: class and params
  wrapper,      \* the account wrapper the callers share, or the error thrown
  executed,     \* how many of the submitted requests the remote program has run
  accountStore, \* the aggregator, oracle and queue accounts in the remote store
  outcome       \* the SwitchboardError.fromCode calls made and their results

vars == <<crankStore, leaseStore, clock, engine, call, prev, submitted,
          decimal, derived, curve, constructed, wrapper, executed,
          accountStore, outcome>>

\* The variables only the aggregator, oracle and error operations use.
others == <<accountStore, outcome>>

\* The variables the crank operations do not write, but for the wrapper.
apart == <<decimal, derived, curve, constructed, executed, others>>

\* The variables the crank operations do not write.
aside == <<apart, wrapper>>

\* The variables of the crank operations.
crankVars == <<crankStore, leaseStore, clock, engine, call, prev, submitted>>

(***************************************************************************)
(* Strings (sequences of UTF-16 code units) and their comparison.          *)
(***************************************************************************)
\* JavaScript's a < b on two strings: lexicographic on code units, a proper
\* prefix being smaller.
RECURSIVE StrLess(_, _)
StrLess(s, t) ==
  IF t = <<>> THEN FALSE
  ELSE IF s = <<>> THEN TRUE
  ELSE IF Head(s) # Head(t) THEN Head(s) < Head(t)
  ELSE StrLess(Tail(s), Tail(t))

\* JavaScript's a <= b on two strings: not (b < a).
StrLessEq(s, t) == ~StrLess(t, s)

\* The decimal digits of a natural number, as code units ("0" is 48).
RECURSIVE Digits(_)
Digits(n) ==
  IF n < 10 THEN <<48 + n>>
  ELSE Append(Digits(n \div 10), 48 + (n % 10))

\* BN.prototype.toString(): base 10, "-" (45) before a negative value.
BNToString(n) == IF n < 0 THEN <<45>> \o Digits(-n) ELSE Digits(n)

\* Buffer.prototype.toString(): UTF-8 decoding.  One-byte and two-byte
\* sequences are decoded, any other byte gives U+FFFD (65533).  The byte
\* values 224..244 (leads of longer sequences) are not used by the model.
RECURSIVE Utf8Decode(_)
Utf8Decode(b) ==
  IF b = <<>> THEN <<>>
  ELSE IF b[1] < 128 THEN <<b[1]>> \o Utf8Decode(Tail(b))
  ELSE IF /\ b[1] >= 194 /\ b[1] <= 223 /\ Len(b) >= 2
          /\ b[2] >= 128 /\ b[2] <= 191
       THEN <<(b[1] - 192) * 64 + (b[2] - 128)>>
              \o Utf8Decode(SubSeq(b, 3, Len(b)))
  ELSE <<65533>> \o Utf8Decode(Tail(b))

(***************************************************************************)
(* The comparators handed to Array.prototype.sort.                         *)
(***************************************************************************)
\* (a, b) => a.nextTimestamp < b.nextTimestamp : a boolean, which sort
\* converts to the number 1 or 0.
ByNextTimestamp(a, b) ==
  IF StrLess(BNToString(a.nextTimestamp), BNToString(b.nextTimestamp))
  THEN 1 ELSE 0

\* (a, b) => a.pubkey.toBytes() < b.pubkey.toBytes() : a boolean again.
ByPubkeyBytes(a, b) ==
  IF StrLess(Utf8Decode(a.pubkey), Utf8Decode(b.pubkey)) THEN 1 ELSE 0

\* A comparison that reads the bytes as signed (Int8Array) values.
RECURSIVE BufferCompareSigned(_, _)
BufferCompareSigned(a, b) ==
  LET s(x) == IF x >= 128 THEN x - 256 ELSE x IN
  IF a = <<>> /\ b = <<>> THEN 0
  ELSE IF a = <<>> THEN -1
  ELSE IF b = <<>> THEN 1
  ELSE IF Head(a) # Head(b) THEN (IF s(Head(a)) < s(Head(b)) THEN -1 ELSE 1)
  ELSE BufferCompareSigned(Tail(a), Tail(b))

\* Buffer.compare: unsigned lexicographic order of the bytes, as -1, 0, 1.
RECURSIVE BufferCompare(_, _)
BufferCompare(a, b) ==
  IF a = <<>> /\ b = <<>> THEN 0
  ELSE IF a = <<>> THEN -1
  ELSE IF b = <<>> THEN 1
  ELSE IF Head(a) # Head(b) THEN (IF Head(a) < Head(b) THEN -1 ELSE 1)
  ELSE BufferCompare(Tail(a), Tail(b))

\* (a, b) => a.toBuffer().compare(b.toBuffer())
ByBuffer(a, b) == BufferCompare(a, b)

Compare(kind, a, b) ==
  CASE kind = "nextTimestamp" -> ByNextTimestamp(a, b)
    [] kind = "pubkey"        -> ByPubkeyBytes(a, b)
    [] kind = "buffer"        -> ByBuffer(a, b)

(***************************************************************************)
(* Array.prototype.sort, per engine, for the short arrays of the model.    *)
(***************************************************************************)
Engines == {"timsort", "insertion"}

Reverse(a) == [i \in 1..Len(a) |-> a[Len(a) + 1 - i]]

\* "insertion": the insertion sort SpiderMonkey runs on arrays shorter than
\* 24 elements (and V8 before 7.0 on arrays of at most 10): an earlier
\* element tmp moves behind the inserted one while comparefn(tmp, element) > 0.
RECURSIVE InsertFromRight(_, _, _)
InsertFromRight(prefix, element, kind) ==
  IF prefix = <<>> THEN <<element>>
  ELSE LET tmp == prefix[Len(prefix)] IN
       IF Compare(kind, tmp, element) > 0
       THEN Append(InsertFromRight(SubSeq(prefix, 1, Len(prefix) - 1),
                                   element, kind), tmp)
       ELSE Append(prefix, element)

RECURSIVE InsertionSortFrom(_, _, _)
InsertionSortFrom(done, rest, kind) ==
  IF rest = <<>> THEN done
  ELSE InsertionSortFrom(InsertFromRight(done, Head(rest), kind),
                         Tail(rest), kind)

InsertionSort(a, kind) == InsertionSortFrom(<<>>, a, kind)

\* "timsort": V8 from 7.0 on.  An array shorter than 64 elements is one run:
\* CountAndMakeRun finds the run at its start (reversing a strictly
\* descending one), BinaryInsertionSort inserts the rest.  Both move an
\* element only when comparefn returns a negative number.
RECURSIVE RunEnd(_, _, _, _)
RunEnd(a, idx, descending, kind) ==
  IF idx >= Len(a) THEN idx
  ELSE LET order == Compare(kind, a[idx + 1], a[idx]) IN
       IF (descending /\ order >= 0) \/ (~descending /\ order < 0)
       THEN idx
       ELSE RunEnd(a, idx + 1, descending, kind)

CountAndMakeRun(a, kind) ==
  LET descending == Compare(kind, a[2], a[1]) < 0
      run == RunEnd(a, 2, descending, kind)
  IN [runLength |-> run,
      array |-> IF descending
                THEN Reverse(SubSeq(a, 1, run)) \o SubSeq(a, run + 1, Len(a))
                ELSE a]

\* left and right are 0-based as in the engine; a[mid + 1] is its workArray[mid].
RECURSIVE BinarySearch(_, _, _, _, _)
BinarySearch(a, pivot, left, right, kind) ==
  IF left >= right THEN left
  ELSE LET mid == left + ((right - left) \div 2) IN
       IF Compare(kind, pivot, a[mid + 1]) < 0
       THEN BinarySearch(a, pivot, left, mid, kind)
       ELSE BinarySearch(a, pivot, mid + 1, right, kind)

RECURSIVE BinaryInsertionSort(_, _, _)
BinaryInsertionSort(a, start, kind) ==
  IF start >= Len(a) THEN a
  ELSE LET pivot == a[start + 1]
           left == BinarySearch(a, pivot, 0, start, kind)
           moved == SubSeq(a, 1, left) \o <<pivot>>
                      \o SubSeq(a, left + 1, start)
                      \o SubSeq(a, start + 2, Len(a))
       IN BinaryInsertionSort(moved, start + 1, kind)

TimSort(a, kind) ==
  IF Len(a) < 2 THEN a
  ELSE LET r == CountAndMakeRun(a, kind)
       IN BinaryInsertionSort(r.array, r.runLength, kind)

ArraySort(a, kind, eng) ==
  IF eng = "timsort" THEN TimSort(a, kind) ELSE InsertionSort(a, kind)

\* A slice that keeps the whole array.
SliceWhole(a, k) == a

\* A slice that keeps one element more.
SliceOneMore(a, k) == SubSeq(a, 1, IF k + 1 < Len(a) THEN k + 1 ELSE Len(a))

\* Array.prototype.slice(0, k) for k >= 0.
SliceTo(a, k) == SubSeq(a, 1, IF k < Len(a) THEN k ELSE Len(a))

(***************************************************************************)
(* Addresses and program-derived addresses.                                *)
(***************************************************************************)
\* The aggregators the enumerated cranks hold.  As bytes K1 < K2 < K3; as
\* UTF-8 text K2 starts with U+FFFD and K3 is the single code unit U+0080.
FeedKeys == {<<1, 16>>, <<128, 16>>, <<194, 128>>}

\* The oracle queue the crank belongs to, the program, a payout wallet.
QueueKey == <<7, 7>>
ProgramId == <<9, 9>>
PayoutWallet == <<5, 5>>
TokenProgramId == <<6, 6>>

\* Buffer.from("lease_account"), Buffer.from("SB_STATE_V1") and the marker
\* "ProgramDerivedAddress" that createProgramAddress hashes last.
LeaseSeed == <<108, 101, 97, 115, 101, 95, 97, 99, 99, 111, 117, 110, 116>>
StateSeed == <<83, 66, 95, 83, 84, 65, 84, 69, 95, 86, 49>>
PdaMarker == <<80, 114, 111, 103, 114, 97, 109, 68, 101, 114, 105, 118, 101,
               100, 65, 100, 100, 114, 101, 115, 115>>

\* The hash of createProgramAddress (sha256 in the library), as a
\* deterministic mixing function onto the model's two-byte addresses.
\* h is mixed with bytes[lo], ..., bytes[hi] in turn.  The range is halved
\* to keep the evaluation shallow; the test on left has it evaluated before
\* the right half is entered (a mixed value is never negative).
RECURSIVE MixRange(_, _, _, _)
MixRange(h, bytes, lo, hi) ==
  IF lo > hi THEN h
  ELSE IF lo = hi THEN (h * 33 + bytes[lo] + 1) % 65521
  ELSE LET mid == (lo + hi) \div 2
           left == MixRange(h, bytes, lo, mid)
       IN IF left < 0 THEN left ELSE MixRange(left, bytes, mid + 1, hi)

MixBytes(h, bytes) == MixRange(h, bytes, 1, Len(bytes))

HashToAddress(bytes) ==
  LET h == MixBytes(5381, bytes) IN <<(h \div 256) % 256, h % 256>>

\* The derivations the program makes: the program state, and the lease of
\* a (leaser, target) pair, here an aggregator and a queue in either order.
SeedInputs ==
  {<<"state">>, <<"lease", <<128, 16>>, <<7, 7>> >>,
   <<"lease", <<7, 7>>, <<128, 16>> >>}
SeedsOf(input) ==
  IF input[1] = "state" THEN StateSeed
  ELSE LeaseSeed \o input[2] \o input[3]

\* The hash of seeds, bump and program id that createProgramAddress tests.
Candidate(seeds, programId, nonce) ==
  HashToAddress(seeds \o <<nonce>> \o programId \o PdaMarker)

\* Which hashes are valid curve points is a property of sha256 and of the
\* curve; the model knows two worlds: "hash" (the bytes of the hash decide,
\* about one candidate in three is on the curve) and "every" (every
\* candidate is on the curve, which exhausts the search).
CurveWorlds == {"hash", "every"}

\* The curve test of the world "hash".
HashOnCurve(addr) == (addr[1] + addr[2]) % 3 = 0

\* PublicKey.isOnCurve, on the model's addresses: a derived address that is
\* a valid curve point is rejected.
IsOnCurve(addr) ==
  CASE curve = "hash"  -> HashOnCurve(addr)
    [] curve = "every" -> TRUE

\* The one element of a singleton set.
TheOne(S) == CHOOSE x \in S : TRUE

\* No nonce of the range gave an address off the curve.
NoneOffCurve == [bump |-> 0, address |-> <<>>]

\* The loop of findProgramAddressSync over the nonces hi, hi - 1, ..., lo:
\* the first nonce whose candidate is off the curve, with that candidate.
\* The candidate of hi is tested first; the nonces below it are halved,
\* upper half first, so that the candidates are met in the order of the
\* loop and the evaluation stays shallow.
RECURSIVE FirstOffCurve(_, _, _, _)
FirstOffCurve(seeds, programId, hi, lo) ==
  IF hi < lo THEN NoneOffCurve
  ELSE TheOne({
    IF ~IsOnCurve(addr) THEN [bump |-> hi, address |-> addr]
    ELSE IF hi = lo THEN NoneOffCurve
    ELSE TheOne({IF upper # NoneOffCurve THEN upper
                 ELSE FirstOffCurve(seeds, programId, (hi + lo) \div 2 - 1, lo) :
                 upper \in {FirstOffCurve(seeds, programId, hi - 1,
                                          (hi + lo) \div 2)}}) :
    addr \in {Candidate(seeds, programId, hi)}})

\* A search that, after the last nonce, returns the candidate of bump 0
\* without testing it.
FindFromNonceUntested(seeds, programId, nonce) ==
  TheOne({IF first = NoneOffCurve
          THEN [found |-> TRUE, address |-> Candidate(seeds, programId, 0),
                bump |-> 0]
          ELSE [found |-> TRUE, address |-> first.address, bump |-> first.bump] :
          first \in {FirstOffCurve(seeds, programId, nonce, 1)}})

\* findProgramAddressSync: the nonce counts down from 255 while it is not 0
\* (bump 0 is not tried); no nonce left is the error "Unable to find a
\* viable program address nonce".
FindFromNonce(seeds, programId, nonce) ==
  TheOne({IF first = NoneOffCurve
          THEN [found |-> FALSE, address |-> <<>>, bump |-> 0]
          ELSE [found |-> TRUE, address |-> first.address, bump |-> first.bump] :
          first \in {FirstOffCurve(seeds, programId, nonce, 1)}})

\* A search whose nonce is kept across calls: it goes on from the bump the
\* call before it found.
FindFromLastBump(seeds, programId) ==
  FindFromNonce(seeds, programId,
                IF derived # <<>> /\ derived.last # <<>>
                     /\ "bump" \in DOMAIN derived.last.result
                THEN derived.last.result.bump ELSE 255)

FindProgramAddressSync(seeds, programId) ==
  FindFromNonce(seeds, programId, 255)

\* LeaseAccount.fromSeed(program, leaser, target)
LeaseFromSeed(leaser, target) ==
  FindProgramAddressSync(LeaseSeed \o leaser \o target, ProgramId)

\* A derivation of the program state from the seed "lease_account".
StateFromLeaseSeed == FindProgramAddressSync(LeaseSeed, ProgramId)

\* ProgramStateAccount.fromSeed(program)
StateFromSeed == FindProgramAddressSync(StateSeed, ProgramId)

(***************************************************************************)
(* The remote store and the clock.                                         *)
(***************************************************************************)
\* What program.account.<x>.fetch finds at an address that holds no account.
NoAccount == [missing |-> TRUE]
\* A field that holds undefined.
Undefined == <<>>

\* nextTimestamp values of the enumerated rows (unix seconds): 8 and 9 have
\* the same number of digits, 10 has one more.
Stamps == {8, 9, 10}

\* Readings of Date.now(), in milliseconds: two of them in the same second.
ClockReadings == {8000, 9000, 9500}

\* The limit CrankAccount.pop passes to peakReady.
PopLimit == 10

CrankRows == [pubkey : FeedKeys, nextTimestamp : Stamps]

SeqsUpTo(S, n) == UNION {[1..k -> S] : k \in 0..n}

\* crankAccountData as stored: the rows, the number of rows in use, the
\* queue, and the reserved padding.
CrankData(rows, size) ==
  [pqData |-> rows, pqSize |-> size, queuePubkey |-> QueueKey, ebuf |-> <<0>>]

SelectCranks ==
  UNION {{CrankData(rows, size) : size \in 0..Len(rows)} :
         rows \in SeqsUpTo(CrankRows, MaxRows)}

Callers == {1, 2}


(***************************************************************************)
(* Account wrappers and their constructor.                                 *)
(***************************************************************************)
\* The address of the crank account in the remote store.
CrankKey == <<3, 3>>

\* A value that is null.
Null == [null |-> TRUE]

\* A PublicKey object: the identity of the object and its bytes.  !== on two
\* objects compares identities.
PublicKeyObject(ref, bytes) == [ref |-> ref, bytes |-> bytes]

\* A web3.js Keypair: its getter publicKey returns a new PublicKey object
\* on every access; access is the number of the access in the constructor.
KeypairObject(bytes) == [publicKeyBytes |-> bytes, secretKey |-> <<bytes, bytes>>]
KeypairPublicKey(keypair, access) ==
  PublicKeyObject(<<"getter", access>>, keypair.publicKeyBytes)

\* The errors of the constructor: its two Error objects, and the TypeError
\* of reading publicKey of undefined or null.
MustProvide(class) ==
  [error |-> <<class,
               ": User must provide either a publicKey or keypair for account use.">>]
Mismatch(class) ==
  [error |-> <<class, ": provided pubkey and keypair mismatch.">>]
TypeErrorThrown == [error |-> <<"TypeError">>]

AccountClasses ==
  {"ProgramStateAccount", "AggregatorAccount", "JobAccount",
   "PermissionAccount", "OracleQueueAccount", "LeaseAccount", "CrankAccount",
   "OracleAccount"}

\* A constructor that takes params.publicKey as it is.
NewAccountNoFallback(class, params) ==
  IF params.keypair = Undefined /\ params.publicKey = Undefined
  THEN MustProvide(class)
  ELSE [class |-> class, program |-> params.program,
        keypair |-> params.keypair, publicKey |-> params.publicKey]

\* new <Class>(params): the same constructor body in all eight classes.
NewAccount(class, params) ==
  IF params.keypair = Undefined /\ params.publicKey = Undefined
  THEN MustProvide(class)
  ELSE IF params.keypair # Undefined /\ params.publicKey # Undefined
          /\ params.keypair = Null
  THEN TypeErrorThrown
  ELSE IF params.keypair # Undefined /\ params.publicKey # Undefined
          /\ params.publicKey # KeypairPublicKey(params.keypair, 1)
  THEN Mismatch(class)
  ELSE IF params.publicKey \notin {Undefined, Null}
  THEN [class |-> class, program |-> params.program,
        keypair |-> params.keypair, publicKey |-> params.publicKey]
  ELSE IF params.keypair \in {Undefined, Null}
  THEN TypeErrorThrown
  ELSE [class |-> class, program |-> params.program,
        keypair |-> params.keypair,
        publicKey |-> KeypairPublicKey(params.keypair, 1)]

\* No constructor has run.
NotConstructed == <<>>

\* The wrapper is an object (the constructor returned).
IsWrapper(w) == w # NotConstructed /\ "error" \notin DOMAIN w

\* The wrapper of the crank at CrankKey, made from its public key.
CrankParams ==
  [program |-> ProgramId, publicKey |-> PublicKeyObject(<<"given", 0>>, CrankKey),
   keypair |-> Undefined]
CrankWrapper == NewAccount("CrankAccount", CrankParams)

\* The methods of CrankAccount are called on a constructed CrankAccount.
IsCrankAccount(w) == IsWrapper(w) /\ w.class = "CrankAccount"

(***************************************************************************)
(* loadData and peakReady.                                                 *)
(***************************************************************************)
\* CrankAccount.loadData / LeaseAccount.loadData: the fetched account with
\* its ebuf field cleared.  fetch throws when the address holds no account.
LoadData(account) == [account EXCEPT !.ebuf = Undefined]

\* A loadData that clears a field of the wrapper in place of the field
\* ebuf of the fetched account.
LoadDataClearingKeypair(this, store) ==
  [this |-> [this EXCEPT !.keypair = Undefined],
   account |-> IF this.publicKey.bytes = CrankKey THEN store ELSE NoAccount]

\* CrankAccount.loadData on the wrapper this: the account fetched at
\* this.publicKey (the store holds the crank at CrankKey), and the wrapper
\* afterwards; loadData assigns no field of this.
CrankAccount_loadData(this, store) ==
  [this |-> this,
   account |-> IF this.publicKey.bytes = CrankKey THEN store ELSE NoAccount]

\* A fetch that gives an account without fields in place of throwing.
FetchAccountOrEmpty(store, address) ==
  IF store[address] = NoAccount
  THEN [escrow |-> Undefined, ebuf |-> <<0>>]
  ELSE store[address]

\* program.account.leaseAccountData.fetch(address): the account stored at
\* the address; NoAccount makes fetch throw "Account does not exist".
FetchAccount(store, address) == store[address]

\* Math.round(now / 1000) in place of Math.floor.
NowSecondsRounded(now) == (now + 500) \div 1000

\* Math.floor(now / 1000)
NowSeconds(now) == now \div 1000

\* A filter written with < in place of <=.
FilterDueStrict(item, now) ==
  StrLess(BNToString(item.nextTimestamp), BNToString(NowSeconds(now)))

\* item.nextTimestamp <= new anchor.BN(Math.floor(now / 1000))
FilterDue(item, now) ==
  StrLessEq(BNToString(item.nextTimestamp), BNToString(NowSeconds(now)))

\* The body of peakReady after the crank is loaded and Date.now() is read.
PeakReadyItems(crank, now, n, eng) ==
  LET inUse     == SliceTo(crank.pqData, crank.pqSize)
      due       == SelectSeq(inUse, LAMBDA item : FilterDue(item, now))
      byTime    == ArraySort(due, "nextTimestamp", eng)
      firstN    == SliceTo(byTime, n)
      byKey     == ArraySort(firstN, "pubkey", eng)
  IN [i \in 1..Len(byKey) |-> byKey[i].pubkey]

(***************************************************************************)
(* The calls.                                                              *)
(***************************************************************************)
NoCrank == [pqData |-> <<>>, pqSize |-> 0, queuePubkey |-> <<>>, ebuf |-> Undefined]

IdleCall ==
  [pc |-> "idle", op |-> "none", limit |-> 0,
   popCrank |-> NoCrank, peakCrank |-> NoCrank, now |-> 0,
   items |-> <<>>, remainingAccounts |-> <<>>, idx |-> 0,
   fetched |-> <<>>, error |-> "none"]

NoCall == [limit |-> 0, crank |-> NoCrank, now |-> 0, items |-> <<>>]

\* A caller starts peakReady(n).
PeakCall(c, n) ==
  /\ IsCrankAccount(wrapper)
  /\ call[c].pc = "idle"
  /\ call' = [call EXCEPT ![c] = [IdleCall EXCEPT !.pc = "peak_load",
                                                  !.op = "peak",
                                                  !.limit = n]]
  /\ UNCHANGED <<crankStore, leaseStore, clock, engine, prev, submitted, aside>>

\* peakReady: let crank = await this.loadData()
PeakLoadData(c) ==
  /\ call[c].pc = "peak_load"
  /\ \E r \in {CrankAccount_loadData(wrapper, crankStore)} :
       /\ wrapper' = r.this
       /\ call' = IF r.account = NoAccount
                      THEN [call EXCEPT ![c].pc = "failed",
                                        ![c].error = "Account does not exist"]
                      ELSE [call EXCEPT ![c].pc = "peak_now",
                                        ![c].peakCrank = LoadData(r.account)]
  /\ UNCHANGED <<crankStore, leaseStore, clock, engine, prev, submitted, apart>>

\* peakReady: const now = Date.now(), the filter, the two sorts and the map;
\* in pop, also let remainingAccounts = peakAggKeys.slice().
PeakCompute(c) ==
  /\ call[c].pc = "peak_now"
  /\ \E items \in {PeakReadyItems(call[c].peakCrank, clock, call[c].limit,
                                  engine[c])} :
       call' = [call EXCEPT ![c].now = clock,
                            ![c].items = items,
                            ![c].pc = IF call[c].op = "pop"
                                      THEN "pop_lease" ELSE "done",
                            ![c].remainingAccounts =
                               IF call[c].op = "pop" THEN items ELSE <<>>,
                            ![c].idx = IF call[c].op = "pop" THEN 1 ELSE 0]
  /\ UNCHANGED <<crankStore, leaseStore, clock, engine, prev, submitted, aside>>

\* The caller takes the result of peakReady (or its error) and is free again.
PeakReturn(c) ==
  /\ call[c].op = "peak"
  /\ call[c].pc \in {"done", "failed"}
  /\ prev' = IF call[c].pc = "done"
             THEN [limit |-> call[c].limit, crank |-> call[c].peakCrank,
                   now |-> call[c].now, items |-> call[c].items]
             ELSE prev
  /\ call' = [call EXCEPT ![c] = IdleCall]
  /\ UNCHANGED <<crankStore, leaseStore, clock, engine, submitted, aside>>

\* The wall clock advances.
Tick ==
  /\ \E t \in ClockReadings : t > clock /\ clock' = t
  /\ UNCHANGED <<crankStore, leaseStore, engine, call, prev, submitted, aside>>

(***************************************************************************)
(* The selection specification: one caller calls peakReady again and       *)
(* again on a crank that does not change, while the clock advances.        *)
(***************************************************************************)
InitSelect ==
  /\ curve = "hash"
  /\ crankStore \in SelectCranks \cup {NoAccount}
  /\ leaseStore = <<>>
  /\ clock = 8000
  /\ engine \in {e \in [Callers -> Engines] : e[2] = "timsort"}
  /\ call = [c \in Callers |-> IdleCall]
  /\ prev = NoCall
  /\ submitted = <<>>
  /\ decimal = <<>>
  /\ derived = <<>>
  /\ constructed = [class |-> "CrankAccount", params |-> CrankParams]
  /\ wrapper = CrankWrapper
  /\ executed = 0
  /\ accountStore = <<>>
  /\ outcome = <<>>

NextSelect ==
  \/ \E n \in 1..MaxLimit : PeakCall(1, n)
  \/ PeakLoadData(1)
  \/ PeakCompute(1)
  \/ PeakReturn(1)
  \/ Tick

SpecSelect == InitSelect /\ [][NextSelect]_vars

(***************************************************************************)
(* CrankAccount.pop.                                                       *)
(***************************************************************************)
\* The aggregators of the cranks enumerated for pop, and the rows they hold.
PopFeedKeys == {<<1, 16>>, <<194, 128>>}
PopRows == [pubkey : PopFeedKeys, nextTimestamp : {8, 9}]

\* A crank with one row more than pop's limit, each of another aggregator;
\* the first row is the most urgent one.
LongFeedKey(i) == <<32 + i, 64>>
LongCrank ==
  CrankData([i \in 1..(PopLimit + 1) |->
               [pubkey |-> LongFeedKey(i),
                nextTimestamp |-> IF i = 1 THEN 8 ELSE 9]],
            PopLimit + 1)

PopCranks ==
  {CrankData(rows, Len(rows)) : rows \in SeqsUpTo(PopRows, MaxRows)}
    \cup {LongCrank}

AllFeedKeys == FeedKeys \cup {LongFeedKey(i) : i \in 1..(PopLimit + 1)}

\* The lease address pop derives for a feed: fromSeed(program, feedKey,
\* crank.queuePubkey), and the one LeaseAccount.create derives for the
\* leaser queue and the target feed: fromSeed(program, leaser, target).
PopLeaseAddress(feed, queue) == LeaseFromSeed(feed, queue).address
CreatedLeaseAddress(queue, feed) == LeaseFromSeed(queue, feed).address

\* The lease address AggregatorAccount.openRound derives for the aggregator
\* it is called on and params.oracleQueueAccount:
\* fromSeed(program, this.publicKey, params.oracleQueueAccount.publicKey).
OpenRoundLeaseAddress(aggregator, queue) ==
  LeaseFromSeed(aggregator, queue).address

LeaseAddresses ==
  {PopLeaseAddress(f, QueueKey) : f \in AllFeedKeys}
    \cup {CreatedLeaseAddress(QueueKey, f) : f \in AllFeedKeys}

\* leaseAccountData as stored: the escrow token account (an address of its
\* own per lease) and the reserved padding.
EscrowOf(lease) == HashToAddress(lease \o <<101>>)
LeaseData(lease) == [escrow |-> EscrowOf(lease), ebuf |-> <<0>>]

\* The lease accounts the remote store may hold: those at the addresses pop
\* looks up, all of them or all but one feed's, or those at the addresses
\* LeaseAccount.create initialises for leaser = queue and target = feed.
LeaseStores ==
  LET holding(S) == [a \in LeaseAddresses |->
                       IF a \in S THEN LeaseData(a) ELSE NoAccount]
      popSide == {PopLeaseAddress(f, QueueKey) : f \in AllFeedKeys}
  IN {holding(popSide)}
       \cup {holding(popSide \ {PopLeaseAddress(f, QueueKey)}) : f \in PopFeedKeys}
       \cup {holding({CreatedLeaseAddress(QueueKey, f) : f \in AllFeedKeys})}

\* A loadData answered with the lease account as it was created.
LeaseLoadDataAsCreated(store, address) ==
  IF store[address] = NoAccount THEN NoAccount ELSE LoadData(LeaseData(address))

\* LeaseAccount.loadData on the wrapper of the lease at address: the account
\* fetched from the store, ebuf cleared; NoAccount when fetch throws.
LeaseAccount_loadData(store, address) ==
  IF FetchAccount(store, address) = NoAccount
  THEN NoAccount
  ELSE LoadData(FetchAccount(store, address))

\* A caller starts pop(params).
PopCall(c) ==
  /\ IsCrankAccount(wrapper)
  /\ call[c].pc = "idle"
  /\ call' = [call EXCEPT ![c] = [IdleCall EXCEPT !.pc = "pop_load",
                                                  !.op = "pop"]]
  /\ UNCHANGED <<crankStore, leaseStore, clock, engine, prev, submitted, aside>>

\* pop: let crank = await this.loadData(), then the call peakReady(10).
PopLoadData(c) ==
  /\ call[c].pc = "pop_load"
  /\ \E r \in {CrankAccount_loadData(wrapper, crankStore)} :
       /\ wrapper' = r.this
       /\ call' = IF r.account = NoAccount
                      THEN [call EXCEPT ![c].pc = "failed",
                                        ![c].error = "Account does not exist"]
                      ELSE [call EXCEPT ![c].pc = "peak_load",
                                        ![c].popCrank = LoadData(r.account),
                                        ![c].limit = PopLimit]
  /\ UNCHANGED <<crankStore, leaseStore, clock, engine, prev, submitted, apart>>

\* pop: one turn of the loop over peakAggKeys: LeaseAccount.fromSeed, then
\* (await leaseAccount.loadData()).escrow and the two push calls.
PopLeaseFetch(c) ==
  /\ call[c].pc = "pop_lease"
  /\ call[c].idx <= Len(call[c].items)
  /\ \E lease \in {LeaseFromSeed(call[c].items[call[c].idx],
                                 call[c].popCrank.queuePubkey)} :
       call' =
          IF ~lease.found
          THEN [call EXCEPT ![c].pc = "failed",
                            ![c].error = "Unable to find a viable program address nonce"]
          ELSE IF LeaseAccount_loadData(leaseStore, lease.address) = NoAccount
          THEN [call EXCEPT ![c].pc = "failed",
                            ![c].error = "Account does not exist"]
          ELSE LET escrow ==
                     LeaseAccount_loadData(leaseStore, lease.address).escrow
               IN [call EXCEPT
                     ![c].remainingAccounts =
                        call[c].remainingAccounts \o <<lease.address, escrow>>,
                     ![c].fetched = Append(call[c].fetched,
                                           [feed |-> call[c].items[call[c].idx],
                                            lease |-> lease.address,
                                            escrow |-> escrow]),
                     ![c].idx = call[c].idx + 1]
  /\ UNCHANGED <<crankStore, leaseStore, clock, engine, prev, submitted, aside>>

\* remainingAccounts.map((pubkey) => ({isSigner: false, isWritable: true, pubkey}))
AccountMetas(keys) ==
  [i \in 1..Len(keys) |->
     [isSigner |-> FALSE, isWritable |-> TRUE, pubkey |-> keys[i]]]

\* pop after the loop: remainingAccounts.sort by Buffer.compare (a
\* consistent comparator: every engine gives the same order),
\* ProgramStateAccount.fromSeed and the call program.rpc.crankPop.
PopSubmit(c) ==
  /\ call[c].pc = "pop_lease"
  /\ call[c].idx > Len(call[c].items)
  /\ \E sorted \in {ArraySort(call[c].remainingAccounts, "buffer", engine[c])} :
     \E state \in {StateFromSeed} :
       IF ~state.found
       THEN /\ call' = [call EXCEPT ![c].pc = "failed",
                                    ![c].error = "Unable to find a viable program address nonce"]
            /\ UNCHANGED submitted
       ELSE /\ call' = [call EXCEPT ![c].pc = "done",
                                    ![c].remainingAccounts = sorted]
            /\ submitted' = Append(submitted,
                 [caller |-> c,
                  method |-> "crankPop",
                  args |-> [stateBump |-> state.bump],
                  accounts |-> [crank |-> wrapper.publicKey.bytes,
                                oracleQueue |-> call[c].popCrank.queuePubkey,
                                programState |-> state.address,
                                payoutWallet |-> PayoutWallet,
                                tokenProgram |-> TokenProgramId],
                  remainingAccounts |-> AccountMetas(sorted)])
  /\ UNCHANGED <<crankStore, leaseStore, clock, engine, prev, aside>>

(***************************************************************************)
(* The pop specification: two independent callers, each on an engine of    *)
(* its own, pop the same crank once while the clock advances.              *)
(***************************************************************************)
Init ==
  /\ curve = "hash"
  /\ crankStore \in PopCranks \cup {NoAccount}
  /\ leaseStore \in LeaseStores
  /\ clock = 8000
  /\ engine \in [Callers -> Engines]
  /\ call = [c \in Callers |-> IdleCall]
  /\ prev = NoCall
  /\ submitted = <<>>
  /\ decimal = <<>>
  /\ derived = <<>>
  /\ constructed = [class |-> "CrankAccount", params |-> CrankParams]
  /\ wrapper = CrankWrapper
  /\ executed = 0
  /\ accountStore = <<>>
  /\ outcome = <<>>

Next ==
  \/ \E c \in Callers :
       \/ PopCall(c)
       \/ PopLoadData(c)
       \/ PeakLoadData(c)
       \/ PeakCompute(c)
       \/ PopLeaseFetch(c)
       \/ PopSubmit(c)
  \/ Tick

Spec == Init /\ [][Next]_vars

(***************************************************************************)
(* SwitchboardDecimal: a mantissa (anchor.BN) and a scale (number).         *)
(***************************************************************************)
\* Largest scale of the enumerated decimals.
MaxScale == 2

\* The mantissas of the enumerated decimals; 67108865 = 2^26 + 1 takes two
\* words of a BN.
Mantissas == {-100, -1, 0, 1, 10, 100, 67108865}

Decimals == [mantissa : Mantissas, scale : 0..MaxScale]

\* bn.js keeps the magnitude in 26-bit words, least significant first, and
\* the sign in the flag negative.
BNWordSize == 67108864

RECURSIVE BNWords(_)
BNWords(n) ==
  IF n < BNWordSize THEN <<n>>
  ELSE <<n % BNWordSize>> \o BNWords(n \div BNWordSize)

BN(n) ==
  [negative |-> IF n < 0 THEN 1 ELSE 0,
   words |-> BNWords(IF n < 0 THEN -n ELSE n)]

\* BN.prototype.ucmp: the longer magnitude is larger; at equal length the
\* most significant differing word decides.
RECURSIVE BNUcmpFrom(_, _, _)
BNUcmpFrom(a, b, i) ==
  IF i = 0 THEN 0
  ELSE IF a.words[i] = b.words[i] THEN BNUcmpFrom(a, b, i - 1)
  ELSE IF a.words[i] < b.words[i] THEN -1 ELSE 1

BNUcmp(a, b) ==
  IF Len(a.words) > Len(b.words) THEN 1
  ELSE IF Len(a.words) < Len(b.words) THEN -1
  ELSE BNUcmpFrom(a, b, Len(a.words))

\* BN.prototype.cmp
BNCmp(a, b) ==
  IF a.negative # 0 /\ b.negative = 0 THEN -1
  ELSE IF a.negative = 0 /\ b.negative # 0 THEN 1
  ELSE IF a.negative # 0 THEN -BNUcmp(a, b)
  ELSE BNUcmp(a, b)

\* BN.prototype.eq
BNEq(a, b) == BNCmp(a, b) = 0

\* An equality that looks at the mantissas alone.
EqMantissaOnly(this, other) == BNEq(BN(this.mantissa), BN(other.mantissa))

\* SwitchboardDecimal.eq
SwitchboardDecimal_eq(this, other) ==
  BNEq(BN(this.mantissa), BN(other.mantissa)) /\ this.scale = other.scale

\* The numeric value of a string of decimal digits (code units).
RECURSIVE DigitsValue(_)
DigitsValue(d) ==
  IF d = <<>> THEN 0
  ELSE DigitsValue(SubSeq(d, 1, Len(d) - 1)) * 10 + (d[Len(d)] - 48)

IsDigits(d) == d # <<>> /\ \A i \in 1..Len(d) : d[i] >= 48 /\ d[i] <= 57

\* The position of the first "e" or "E" of a string, 0 when there is none.
RECURSIVE SearchE(_, _)
SearchE(n, i) ==
  IF i > Len(n) THEN 0
  ELSE IF n[i] = 101 \/ n[i] = 69 THEN i
  ELSE SearchE(n, i + 1)

\* The number of "0" (48) at the start of a string.
RECURSIVE LeadingZeros(_)
LeadingZeros(n) ==
  IF n = <<>> \/ n[1] # 48 THEN 0 ELSE 1 + LeadingZeros(Tail(n))

RECURSIVE StripTrailing(_, _)
StripTrailing(c, zero) ==
  IF c # <<>> /\ c[Len(c)] = zero
  THEN StripTrailing(SubSeq(c, 1, Len(c) - 1), zero)
  ELSE c

BigInvalid == [error |-> "[big.js] Invalid number"]

\* big.js parse(x, n) for a literal without a decimal point (BN.toString
\* and the template of toBig write none): NUMERIC test, sign, exponent,
\* leading and trailing zeros.  A Big is sign s, exponent e, digits c.
ParseBig(n) ==
  LET s       == IF n # <<>> /\ n[1] = 45 THEN -1 ELSE 1
      body    == IF s = -1 THEN Tail(n) ELSE n
      i       == SearchE(body, 1)
      digits  == IF i > 0 THEN SubSeq(body, 1, i - 1) ELSE body
      expStr  == IF i > 0 THEN SubSeq(body, i + 1, Len(body)) ELSE <<>>
      expSign == IF expStr # <<>> /\ expStr[1] = 45 THEN -1 ELSE 1
      expDig  == IF expStr # <<>> /\ expStr[1] \in {43, 45}
                 THEN Tail(expStr) ELSE expStr
      e       == Len(digits) + (IF i > 0 THEN expSign * DigitsValue(expDig) ELSE 0)
      lead    == LeadingZeros(digits)
      kept    == StripTrailing(SubSeq(digits, lead + 1, Len(digits)), 48)
  IN IF ~IsDigits(digits) \/ (i > 0 /\ ~IsDigits(expDig)) THEN BigInvalid
     ELSE IF lead = Len(digits) THEN [s |-> s, e |-> 0, c |-> <<0>>]
     ELSE [s |-> s, e |-> e - lead - 1,
           c |-> [k \in 1..Len(kept) |-> kept[k] - 48]]

\* The number a digit array (most significant first) stands for.
RECURSIVE CoefficientValue(_)
CoefficientValue(c) ==
  IF c = <<>> THEN 0
  ELSE CoefficientValue(SubSeq(c, 1, Len(c) - 1)) * 10 + c[Len(c)]

\* The a + b digit array the multiplication loop of times fills.
ProductDigits(xc, yc) ==
  LET d == Digits(CoefficientValue(xc) * CoefficientValue(yc))
      pad == Len(xc) + Len(yc) - Len(d)
  IN [k \in 1..(Len(xc) + Len(yc)) |-> IF k <= pad THEN 0 ELSE d[k - pad] - 48]

\* Big.prototype.times: exact; the exponents add, one more on a final carry.
BigTimes(x, y) ==
  LET s == IF x.s = y.s THEN 1 ELSE -1 IN
  IF x.c[1] = 0 \/ y.c[1] = 0 THEN [s |-> s, e |-> 0, c |-> <<0>>]
  ELSE LET c == ProductDigits(x.c, y.c)
           carry == c[1] # 0
       IN [s |-> s,
           e |-> x.e + y.e + (IF carry THEN 1 ELSE 0),
           c |-> StripTrailing(IF carry THEN c ELSE Tail(c), 0)]

\* A template that writes the exponent without its sign.
ScaleLiteralUnsigned(scale) == <<49, 101>> \o Digits(scale)

\* `1e-${this.scale}`
ScaleLiteral(scale) == <<49, 101, 45>> \o Digits(scale)

\* SwitchboardDecimal.toBig: the Big it returns (or the error of big.js) and
\* the instance afterwards; toBig assigns no field.
SwitchboardDecimal_toBig(this) ==
  LET scale == ParseBig(ScaleLiteral(this.scale))
      mantissa == ParseBig(BNToString(this.mantissa))
  IN [value |-> IF scale = BigInvalid \/ mantissa = BigInvalid THEN BigInvalid
                ELSE BigTimes(mantissa, scale),
      this |-> this]

NotCalled == <<>>

\* eq is applied to every pair of the three operands.
DecimalEq ==
  /\ decimal # <<>>
  /\ decimal.eq = NotCalled
  /\ decimal' = [decimal EXCEPT !.eq =
        [i \in 1..3 |-> [j \in 1..3 |->
           SwitchboardDecimal_eq(decimal.operands[i], decimal.operands[j])]]]
  /\ UNCHANGED <<crankVars, derived, curve, constructed, wrapper, executed, others>>

\* toBig is applied to one of the operands.
DecimalToBig(i) ==
  /\ decimal # <<>>
  /\ \E r \in {SwitchboardDecimal_toBig(decimal.operands[i])} :
       decimal' = [decimal EXCEPT !.toBig = [of |-> i, value |-> r.value],
                                  !.operands[i] = r.this]
  /\ UNCHANGED <<crankVars, derived, curve, constructed, wrapper, executed, others>>

InitDecimal ==
  /\ crankStore = NoAccount
  /\ leaseStore = <<>>
  /\ clock = 8000
  /\ engine = [c \in Callers |-> "timsort"]
  /\ call = [c \in Callers |-> IdleCall]
  /\ prev = NoCall
  /\ submitted = <<>>
  /\ decimal \in [operands : [1..3 -> Decimals], eq : {NotCalled},
                  toBig : {NotCalled}]
  /\ derived = <<>>
  /\ curve = "hash"
  /\ constructed = NotConstructed
  /\ wrapper = NotConstructed
  /\ executed = 0
  /\ accountStore = <<>>
  /\ outcome = <<>>

NextDecimal ==
  \/ DecimalEq
  \/ \E i \in 1..3 : DecimalToBig(i)

SpecDecimal == InitDecimal /\ [][NextDecimal]_vars

(***************************************************************************)
(* The fromSeed calls on their own: ProgramStateAccount.fromSeed and       *)
(* LeaseAccount.fromSeed are called again and again, in any order, while   *)
(* the clock advances.                                                     *)
(***************************************************************************)
\* Each input is derived at most MaxCalls times.
MaxCalls == 2

\* The requests the callers of the client specification submit.
MaxRequests == 2

\* The length of the array queue of an oracle queue account.
MaxQueue == 3

\* The entries of the error list of an IDL.
MaxErrors == 2

\* The error findProgramAddressSync throws when no nonce is left.
DerivationExhausted ==
  [error |-> "Unable to find a viable program address nonce"]

\* What fromSeed hands back: the publicKey of the wrapper it constructs and
\* the bump, or the error thrown by the search.
FromSeedResult(found) ==
  IF found.found THEN [publicKey |-> found.address, bump |-> found.bump]
  ELSE DerivationExhausted

FromSeed(input) ==
  FromSeedResult(IF input[1] = "state" THEN StateFromSeed
                 ELSE LeaseFromSeed(input[2], input[3]))

FromSeedCall(input) ==
  /\ derived # <<>>
  /\ derived.calls[input] < MaxCalls
  /\ \E r \in {FromSeed(input)} :
       derived' = [calls |-> [derived.calls EXCEPT ![input] = @ + 1],
                   first |-> IF derived.calls[input] = 0
                             THEN [derived.first EXCEPT ![input] = r]
                             ELSE derived.first,
                   last  |-> [input |-> input, result |-> r]]
  /\ UNCHANGED <<crankVars, decimal, curve, constructed, wrapper, executed, others>>

InitDerive ==
  /\ crankStore = NoAccount
  /\ leaseStore = <<>>
  /\ clock = 8000
  /\ engine = [c \in Callers |-> "timsort"]
  /\ call = [c \in Callers |-> IdleCall]
  /\ prev = NoCall
  /\ submitted = <<>>
  /\ decimal = <<>>
  /\ derived = [calls |-> [i \in SeedInputs |-> 0],
                first |-> [i \in SeedInputs |-> NotCalled],
                last  |-> NotCalled]
  /\ curve \in CurveWorlds
  /\ constructed = NotConstructed
  /\ wrapper = NotConstructed
  /\ executed = 0
  /\ accountStore = <<>>
  /\ outcome = <<>>

NextDerive ==
  \/ \E input \in SeedInputs : FromSeedCall(input)
  \/ Tick

SpecDerive == InitDerive /\ [][NextDerive]_vars

(***************************************************************************)
(* The client specification: a wrapper is constructed and shared by the    *)
(* callers, who call loadData, peakReady, push and pop on it again and     *)
(* again, while the remote program runs the submitted requests and a       *)
(* lease is given another escrow.                                          *)
(***************************************************************************)
\* The feed on the crank at the start, and the feed the callers push.
ClientFeed == <<1, 16>>
PushedFeed == <<194, 128>>

\* A keypair of the crank account, and one of another account.
CrankKeypair == KeypairObject(CrankKey)
OtherKeypair == KeypairObject(<<9, 9>>)

\* The params handed to the constructors.
ConstructorParams ==
  [program : {ProgramId},
   publicKey : {Undefined, Null, PublicKeyObject(<<"given", 0>>, CrankKey)},
   keypair : {Undefined, Null, CrankKeypair, OtherKeypair}]

\* new <Class>(params); an error thrown leaves no wrapper to call.
Construct(class, params) ==
  /\ wrapper = NotConstructed
  /\ constructed' = [class |-> class, params |-> params]
  /\ wrapper' = NewAccount(class, params)
  /\ UNCHANGED <<crankVars, decimal, derived, curve, executed, others>>

\* The wrapper of an aggregator, as pop makes it from a feed key.
AggregatorOf(feed) ==
  NewAccount("AggregatorAccount",
             [program |-> ProgramId,
              publicKey |-> PublicKeyObject(<<"given", 0>>, feed),
              keypair |-> Undefined])

\* A push that names the method of pop.
PushRequestAsPop(c, this, aggregator) ==
  [caller |-> c, method |-> "crankPop", args |-> <<>>,
   accounts |-> [crank |-> this.publicKey.bytes,
                 aggregator |-> aggregator.publicKey.bytes],
   remainingAccounts |-> <<>>]

\* The request of push: program.rpc.crankPush with no arguments and the
\* accounts crank and aggregator.
PushRequest(c, this, aggregator) ==
  [caller |-> c, method |-> "crankPush", args |-> <<>>,
   accounts |-> [crank |-> this.publicKey.bytes,
                 aggregator |-> aggregator.publicKey.bytes],
   remainingAccounts |-> <<>>]

\* A caller may start a call that submits a request.
CanSubmit(c) ==
  Len(submitted)
    + Cardinality({d \in Callers : call[d].op \in {"pop", "push"}
                                     /\ call[d].pc \notin {"done", "failed"}})
    < MaxRequests

\* push(aggregator): the request is submitted; the call returns when the
\* remote program has run it.
Push(c, aggregator) ==
  /\ IsCrankAccount(wrapper)
  /\ call[c].pc = "idle"
  /\ submitted' = Append(submitted, PushRequest(c, wrapper, aggregator))
  /\ call' = [call EXCEPT ![c] = [IdleCall EXCEPT !.pc = "done",
                                                  !.op = "push"]]
  /\ UNCHANGED <<crankStore, leaseStore, clock, engine, prev, aside>>

\* loadData() called on its own.
LoadDataCall(c) ==
  /\ IsCrankAccount(wrapper)
  /\ call[c].pc = "idle"
  /\ \E r \in {CrankAccount_loadData(wrapper, crankStore)} :
       /\ wrapper' = r.this
       /\ call' = IF r.account = NoAccount
                  THEN [call EXCEPT ![c] =
                          [IdleCall EXCEPT !.pc = "failed", !.op = "load",
                                           !.error = "Account does not exist"]]
                  ELSE [call EXCEPT ![c] =
                          [IdleCall EXCEPT !.pc = "done", !.op = "load",
                                           !.peakCrank = LoadData(r.account)]]
  /\ UNCHANGED <<crankStore, leaseStore, clock, engine, prev, submitted, apart>>

\* The promise of loadData, peakReady, push or pop settles, and the caller is
\* free for its next call; a request the caller submitted is awaited until
\* the remote program has run it.
Return(c) ==
  /\ call[c].pc \in {"done", "failed"}
  /\ \A i \in (executed + 1)..Len(submitted) : submitted[i].caller # c
  /\ call' = [call EXCEPT ![c] = IdleCall]
  /\ UNCHANGED <<crankStore, leaseStore, clock, engine, prev, submitted, aside>>

\* What the remote program does to the crank when it runs a request:
\* crankPush adds a row for the aggregator after the rows in use, crankPop
\* takes off the rows of the aggregators among the accounts it was handed.
RemoteApply(store, request, now) ==
  LET inUse == SubSeq(store.pqData, 1, store.pqSize)
      handed == {request.remainingAccounts[i].pubkey :
                   i \in 1..Len(request.remainingAccounts)}
      kept == SelectSeq(inUse, LAMBDA row : row.pubkey \notin handed)
      rows == IF request.method = "crankPush"
              THEN Append(inUse, [pubkey |-> request.accounts.aggregator,
                                  nextTimestamp |-> now \div 1000])
              ELSE kept
  IN [store EXCEPT !.pqData = rows, !.pqSize = Len(rows)]

\* The remote program runs the next request, or rejects it: the awaiting
\* call then fails.
RemoteExecute(ok) ==
  /\ executed < Len(submitted)
  /\ executed' = executed + 1
  /\ LET request == submitted[executed + 1]
     IN IF ok /\ crankStore # NoAccount
              /\ request.accounts.crank = CrankKey
        THEN /\ crankStore' = RemoteApply(crankStore, request, clock)
             /\ UNCHANGED call
        ELSE /\ call' = [call EXCEPT ![request.caller].pc = "failed",
                                     ![request.caller].error = "Transaction failed"]
             /\ UNCHANGED crankStore
  /\ UNCHANGED <<leaseStore, clock, engine, prev, submitted,
                 decimal, derived, curve, constructed, wrapper, others>>

\* The lease of the feed on the crank is given another escrow account.
MovedEscrow(lease) == HashToAddress(lease \o <<102>>)
LeaseChange(lease) ==
  /\ leaseStore[lease] = LeaseData(lease)
  /\ leaseStore' = [leaseStore EXCEPT ![lease].escrow = MovedEscrow(lease)]
  /\ UNCHANGED <<crankStore, clock, engine, call, prev, submitted, aside>>

\* The crank at the start: one row in use, due at the clock of InitClient.
ClientCranks ==
  {CrankData(<<[pubkey |-> ClientFeed, nextTimestamp |-> 8]>>, 1)}

InitClient ==
  /\ curve = "hash"
  /\ crankStore \in ClientCranks
  /\ leaseStore = [a \in LeaseAddresses |->
                     IF a \in {PopLeaseAddress(f, QueueKey) : f \in AllFeedKeys}
                     THEN LeaseData(a) ELSE NoAccount]
  /\ clock = 9000
  /\ engine = [c \in Callers |-> "timsort"]
  /\ call = [c \in Callers |-> IdleCall]
  /\ prev = NoCall
  /\ submitted = <<>>
  /\ decimal = <<>>
  /\ derived = <<>>
  /\ constructed = NotConstructed
  /\ wrapper = NotConstructed
  /\ executed = 0
  /\ accountStore = <<>>
  /\ outcome = <<>>

NextClient ==
  \/ \E class \in AccountClasses : \E params \in ConstructorParams :
       Construct(class, params)
  \/ \E c \in Callers :
       \/ LoadDataCall(c)
       \/ PeakCall(c, MaxLimit)
       \/ CanSubmit(c) /\ Push(c, AggregatorOf(PushedFeed))
       \/ CanSubmit(c) /\ PopCall(c)
       \/ PopLoadData(c)
       \/ PeakLoadData(c)
       \/ PeakCompute(c)
       \/ PopLeaseFetch(c)
       \/ PopSubmit(c)
       \/ Return(c)
  \/ \E ok \in BOOLEAN : RemoteExecute(ok)
  \/ LeaseChange(PopLeaseAddress(ClientFeed, QueueKey))

SpecClient == InitClient /\ [][NextClient]_vars

(***************************************************************************)
(* AggregatorAccount.getLatestValue, produceJobsHash and saveResult.       *)
(***************************************************************************)
\* A JavaScript number, and an anchor.BN, as fields of decoded accounts.
Num(n) == [number |-> n]
BNObject(n) == [bn |-> n]

\* The aggregator the calls are made on, and the job accounts it may list.
AggregatorKey == <<1, 16>>
JobKeys == <<(<<20, 1>>), (<<20, 2>>)>>

\* The bound of BN.toNumber (2^53 in bn.js), on the scale of the model's
\* integers.
MaxSafeInteger == 1048576

\* The result of a round: mantissa (i128, decoded to a BN) and scale, which
\* the IDL decides to be a number (u32) or a BN; the last mantissa is
\* beyond the bound of toNumber.
RoundResults ==
  {[mantissa |-> BNObject(12345), scale |-> BNObject(2)],
   [mantissa |-> BNObject(12345), scale |-> Num(2)],
   [mantissa |-> BNObject(MaxSafeInteger), scale |-> BNObject(0)]}

\* latestConfirmedRound as an aggregator may hold it or a caller may pass
\* it: undefined, null, without numSuccess, with numSuccess null, 0 or 2.
ConfirmedRounds ==
  {Undefined, Null}
    \cup {[result |-> r] : r \in RoundResults}
    \cup {[numSuccess |-> n, result |-> r] :
            n \in {Null, Num(0), Num(2)}, r \in RoundResults}

\* aggregatorAccountData: the jobs it lists, its rounds, the padding.
AggregatorData(size, round) ==
  [jobPubkeysData |-> JobKeys, jobPubkeysSize |-> size,
   latestConfirmedRound |-> round,
   currentRound |-> [oracleQueuePubkey |-> QueueKey],
   ebuf |-> <<0>>]

AggregatorDatas ==
  {AggregatorData(size, round) : size \in 0..Len(JobKeys),
                                 round \in ConfirmedRounds}

\* The serialized job a job account holds.
JobBytes(key) == key \o <<74>>

\* A test that only asks for the round.
HoldsNoRound(aggregator) ==
  aggregator.latestConfirmedRound \in {Undefined, Null}

\* (aggregator.latestConfirmedRound?.numSuccess ?? 0) === 0
HoldsNoValue(aggregator) ==
  LET round == aggregator.latestConfirmedRound
      numSuccess == IF round \in {Undefined, Null} THEN Undefined
                    ELSE IF "numSuccess" \notin DOMAIN round THEN Undefined
                    ELSE round.numSuccess
      orZero == IF numSuccess \in {Undefined, Null} THEN Num(0) ELSE numSuccess
  IN orZero = Num(0)

\* BN.toNumber() asserts that the value fits 53 bits.
FitsNumber(n) == n < MaxSafeInteger /\ n > -MaxSafeInteger

HoldsNoValueError == [error |-> "Aggregator currently holds no value."]

\* getLatestValue once the aggregator is at hand: the error of an aggregator
\* without value, or mantissa / 10^scale (the double nearest the quotient
\* of num and den); toNumber throws for a mantissa beyond 53 bits and is
\* not a function of a scale that is a number.
LatestValue(aggregator) ==
  IF HoldsNoValue(aggregator) THEN HoldsNoValueError
  ELSE LET result == aggregator.latestConfirmedRound.result
       IN IF ~FitsNumber(result.mantissa.bn)
          THEN [error |-> "Number can only safely store up to 53 bits"]
          ELSE IF "bn" \notin DOMAIN result.scale
          THEN [error |-> "TypeError"]
          ELSE [value |-> [num |-> result.mantissa.bn,
                           den |-> 10 ^ result.scale.bn]]

\* The local state of a caller of the aggregator's methods.
IdleAggregatorCall ==
  [pc |-> "idle", op |-> "none", preloaded |-> Undefined, fetches |-> 0,
   data |-> Undefined, returned |-> Undefined, error |-> "none",
   promise |-> [state |-> "none"]]

\* aggregator ?? (await this.loadData()): the remote read is made only for
\* undefined or null.
NeedsLoad(aggregator) == aggregator \in {Undefined, Null}

\* getLatestValue(aggregator): with an aggregator passed the call runs to
\* its end without a read; without one it awaits loadData first.
GetLatestValueCall(c, aggregator) ==
  /\ call[c].pc = "idle"
  /\ call' = [call EXCEPT ![c] =
       IF NeedsLoad(aggregator)
       THEN [IdleAggregatorCall EXCEPT !.op = "getLatestValue",
                                       !.pc = "latest_load",
                                       !.preloaded = aggregator]
       ELSE LET r == LatestValue(aggregator)
            IN [IdleAggregatorCall EXCEPT
                  !.op = "getLatestValue",
                  !.preloaded = aggregator,
                  !.data = aggregator,
                  !.pc = IF "error" \in DOMAIN r THEN "failed" ELSE "done",
                  !.returned = r]]
  /\ UNCHANGED <<crankStore, leaseStore, clock, engine, prev, submitted,
                 decimal, derived, curve, constructed, wrapper, executed,
                 others>>

\* getLatestValue: await this.loadData(), then the rest of the body.
GetLatestValueLoad(c) ==
  /\ call[c].pc = "latest_load"
  /\ call' = [call EXCEPT ![c] =
       IF accountStore.aggregator = NoAccount
       THEN [call[c] EXCEPT !.pc = "failed", !.fetches = @ + 1,
                            !.returned = [error |-> "Account does not exist"]]
       ELSE LET data == LoadData(accountStore.aggregator)
                r == LatestValue(data)
            IN [call[c] EXCEPT
                  !.fetches = @ + 1,
                  !.data = data,
                  !.pc = IF "error" \in DOMAIN r THEN "failed" ELSE "done",
                  !.returned = r]]
  /\ UNCHANGED <<crankStore, leaseStore, clock, engine, prev, submitted,
                 decimal, derived, curve, constructed, wrapper, executed,
                 others>>

\* A JavaScript Promise that has not settled, and the crypto.Hash object
\* produceJobsHash resolves with: sha256 fed with the serialized jobs.
PendingPromise == [kind |-> "Promise", state |-> "pending"]
HashObject(jobs) ==
  [kind |-> "Hash",
   fed |-> MixBytes(5381, IF Len(jobs) = 0 THEN <<>>
                          ELSE IF Len(jobs) = 1 THEN jobs[1]
                          ELSE jobs[1] \o jobs[2])]

\* The jobs the aggregator lists: jobPubkeysData.slice(0, jobPubkeysSize).
ListedJobs(aggregator) ==
  SubSeq(aggregator.jobPubkeysData, 1, aggregator.jobPubkeysSize)

\* The request of saveResult: program.rpc.aggregatorSaveResult with the
\* arguments oracleIdx, value, jobsHash, minResponse and maxResponse (the
\* numbers as strings) and the accounts aggregator, oracle, oracleQueue;
\* jobsHash is what the call this.produceJobsHash() returned.
SaveResultRequest(c, this, data, jobsHash) ==
  [caller |-> c, method |-> "aggregatorSaveResult",
   args |-> [oracleIdx |-> 0, value |-> <<49>>,
             jobsHash |-> jobsHash,
             minResponse |-> <<49>>, maxResponse |-> <<49>>],
   accounts |-> [aggregator |-> this.publicKey.bytes,
                 oracle |-> PayoutWallet,
                 oracleQueue |-> data.currentRound.oracleQueuePubkey],
   remainingAccounts |-> <<>>]

\* A caller starts saveResult(oracleAccount, params).
SaveResultCall(c) ==
  /\ call[c].pc = "idle"
  /\ call' = [call EXCEPT ![c] =
                [IdleAggregatorCall EXCEPT !.op = "saveResult",
                                           !.pc = "save_load"]]
  /\ UNCHANGED <<crankStore, leaseStore, clock, engine, prev, submitted,
                 decimal, derived, curve, constructed, wrapper, executed,
                 others>>

\* saveResult: let data = await this.loadData().
SaveResultLoad(c) ==
  /\ call[c].pc = "save_load"
  /\ call' = [call EXCEPT ![c] =
       IF accountStore.aggregator = NoAccount
       THEN [call[c] EXCEPT !.pc = "failed", !.fetches = @ + 1,
                            !.returned = [error |-> "Account does not exist"]]
       ELSE [call[c] EXCEPT !.pc = "save_submit", !.fetches = @ + 1,
                            !.data = LoadData(accountStore.aggregator)]]
  /\ UNCHANGED <<crankStore, leaseStore, clock, engine, prev, submitted,
                 decimal, derived, curve, constructed, wrapper, executed,
                 others>>

\* saveResult: the argument object is built, which calls produceJobsHash():
\* that call runs to its first await and returns its promise, pending; then
\* program.rpc.aggregatorSaveResult is called with it.
SaveResultSubmit(c) ==
  /\ call[c].pc = "save_submit"
  /\ call' = [call EXCEPT ![c].pc = "done",
                          ![c].promise = [state |-> "pending", pc |-> "hash_load",
                                          jobPubkeys |-> <<>>]]
  /\ submitted' = Append(submitted,
       SaveResultRequest(c, AggregatorOf(AggregatorKey), call[c].data,
                         PendingPromise))
  /\ UNCHANGED <<crankStore, leaseStore, clock, engine, prev,
                 decimal, derived, curve, constructed, wrapper, executed,
                 others>>

\* produceJobsHash: const aggregator = await this.loadData(), and the loop
\* that collects the listed job keys.
HashLoadData(c) ==
  /\ call[c].promise.state = "pending"
  /\ call[c].promise.pc = "hash_load"
  /\ call' = [call EXCEPT ![c].promise =
       IF accountStore.aggregator = NoAccount
       THEN [state |-> "rejected", error |-> "Account does not exist"]
       ELSE [state |-> "pending", pc |-> "hash_jobs",
             jobPubkeys |-> ListedJobs(LoadData(accountStore.aggregator))]]
  /\ UNCHANGED <<crankStore, leaseStore, clock, engine, prev, submitted,
                 decimal, derived, curve, constructed, wrapper, executed,
                 others>>

\* produceJobsHash: getMultipleAccounts of the job keys, then this.loadJobs()
\* (which loads the aggregator and the job accounts again and decodes them;
\* a job account that is missing makes it throw), then the hash is fed
\* with every job and returned: the promise resolves with the Hash object.
HashLoadJobs(c) ==
  /\ call[c].promise.state = "pending"
  /\ call[c].promise.pc = "hash_jobs"
  /\ call' = [call EXCEPT ![c].promise =
       IF accountStore.aggregator = NoAccount
       THEN [state |-> "rejected", error |-> "Account does not exist"]
       ELSE LET keys == ListedJobs(LoadData(accountStore.aggregator))
            IN IF \E i \in 1..Len(keys) : keys[i] \notin accountStore.jobs
               THEN [state |-> "rejected", error |-> "TypeError"]
               ELSE [state |-> "resolved",
                     value |-> HashObject([i \in 1..Len(keys) |->
                                             JobBytes(keys[i])])]]
  /\ UNCHANGED <<crankStore, leaseStore, clock, engine, prev, submitted,
                 decimal, derived, curve, constructed, wrapper, executed,
                 others>>

\* The aggregators a caller may pass to getLatestValue.
PreloadedAggregators ==
  LET r == [mantissa |-> BNObject(12345), scale |-> BNObject(2)]
  IN {Undefined, Null}
       \cup {AggregatorData(1, round) :
               round \in {Undefined, [numSuccess |-> Num(0), result |-> r],
                          [numSuccess |-> Num(2), result |-> r]}}

(***************************************************************************)
(* The aggregator specification: two callers call getLatestValue or        *)
(* saveResult, once each, on an aggregator of the remote store.            *)
(***************************************************************************)
InitAggregator ==
  /\ curve = "hash"
  /\ crankStore = NoAccount
  /\ leaseStore = [a \in LeaseAddresses |-> NoAccount]
  /\ clock = 8000
  /\ engine = [c \in Callers |-> "timsort"]
  /\ call = [c \in Callers |-> IdleAggregatorCall]
  /\ prev = NoCall
  /\ submitted = <<>>
  /\ decimal = <<>>
  /\ derived = <<>>
  /\ constructed = NotConstructed
  /\ wrapper = NotConstructed
  /\ executed = 0
  /\ accountStore \in
       {[aggregator |-> a, jobs |-> jobs] :
          a \in AggregatorDatas \cup {NoAccount},
          jobs \in {{JobKeys[1], JobKeys[2]}, {JobKeys[1]}}}
  /\ outcome = <<>>

NextAggregator ==
  \E c \in Callers :
    \/ \E aggregator \in PreloadedAggregators : GetLatestValueCall(c, aggregator)
    \/ GetLatestValueLoad(c)
    \/ SaveResultCall(c)
    \/ SaveResultLoad(c)
    \/ SaveResultSubmit(c)
    \/ HashLoadData(c)
    \/ HashLoadJobs(c)

SpecAggregator == InitAggregator /\ [][NextAggregator]_vars

(***************************************************************************)
(* OracleAccount.heartbeat.                                                *)
(***************************************************************************)
\* The oracle that sends the heartbeat (made by OracleAccount.create from a
\* keypair) and the other oracles of the queue.
OracleKey == <<40, 1>>
OracleKeys == {OracleKey, <<40, 2>>, <<40, 3>>}
OracleWrapper ==
  NewAccount("OracleAccount",
             [program |-> ProgramId, publicKey |-> Undefined,
              keypair |-> KeypairObject(OracleKey)])

\* oracleAccountData, and oracleQueueAccountData: the array queue of
\* MaxQueue oracle keys, of which the first size are in use.
OracleData == [queuePubkey |-> QueueKey, ebuf |-> <<0>>]
QueueDatas ==
  [queue : [1..MaxQueue -> OracleKeys], size : 0..MaxQueue, ebuf : {<<0>>}]

\* a[i] of a JavaScript array, i counted from 0: undefined outside it.
ArrayAt(a, i) == IF i + 1 \in DOMAIN a THEN a[i + 1] ELSE Undefined

\* A choice that reads the entry at index size.
GcOracleAtSize(this, queue) ==
  IF queue.size # 0
  THEN [reads |-> {queue.size}, pubkey |-> ArrayAt(queue.queue, queue.size)]
  ELSE [reads |-> {}, pubkey |-> this.publicKey.bytes]

\* let lastPubkey = this.publicKey;
\* if (queue.size !== 0) lastPubkey = queue.queue[queue.size - 1];
\* with the indices of queue.queue that were read.
GcOracle(this, queue) ==
  IF queue.size # 0
  THEN [reads |-> {queue.size - 1},
        pubkey |-> ArrayAt(queue.queue, queue.size - 1)]
  ELSE [reads |-> {}, pubkey |-> this.publicKey.bytes]

\* The local state of a caller of heartbeat.
IdleOracleCall ==
  [pc |-> "idle", op |-> "none", queueAccount |-> Undefined, reads |-> {},
   error |-> "none"]

\* A caller starts heartbeat().
HeartbeatCall(c) ==
  /\ call[c].pc = "idle"
  /\ call' = [call EXCEPT ![c] = [IdleOracleCall EXCEPT !.op = "heartbeat",
                                                        !.pc = "hb_oracle"]]
  /\ UNCHANGED <<crankStore, leaseStore, clock, engine, prev, submitted,
                 decimal, derived, curve, constructed, wrapper, executed,
                 others>>

\* heartbeat: new OracleQueueAccount({program, publicKey:
\* (await this.loadData()).queuePubkey}).
HeartbeatLoadOracle(c) ==
  /\ call[c].pc = "hb_oracle"
  /\ call' = [call EXCEPT ![c] =
       IF accountStore.oracle = NoAccount
       THEN [call[c] EXCEPT !.pc = "failed",
                            !.error = "Account does not exist"]
       ELSE [call[c] EXCEPT
               !.pc = "hb_queue",
               !.queueAccount =
                  NewAccount("OracleQueueAccount",
                             [program |-> wrapper.program,
                              publicKey |->
                                PublicKeyObject(<<"given", 0>>,
                                  LoadData(accountStore.oracle).queuePubkey),
                              keypair |-> Undefined])]]
  /\ UNCHANGED <<crankStore, leaseStore, clock, engine, prev, submitted,
                 decimal, derived, curve, constructed, wrapper, executed,
                 others>>

\* heartbeat: const queue = await queueAccount.loadData(), the choice of
\* lastPubkey and the call program.rpc.oracleHeartbeat.
HeartbeatSubmit(c) ==
  /\ call[c].pc = "hb_queue"
  /\ IF accountStore.queue = NoAccount
        \/ call[c].queueAccount.publicKey.bytes # QueueKey
     THEN /\ call' = [call EXCEPT ![c].pc = "failed",
                                  ![c].error = "Account does not exist"]
          /\ UNCHANGED submitted
     ELSE \E last \in {GcOracle(wrapper, LoadData(accountStore.queue))} :
            /\ call' = [call EXCEPT ![c].pc = "done",
                                    ![c].reads = last.reads]
            /\ submitted' = Append(submitted,
                 [caller |-> c, method |-> "oracleHeartbeat", args |-> <<>>,
                  accounts |-> [oracle |-> wrapper.publicKey.bytes,
                                gcOracle |-> last.pubkey,
                                oracleQueue |->
                                  call[c].queueAccount.publicKey.bytes],
                  signers |-> <<wrapper.keypair>>,
                  remainingAccounts |-> <<>>])
  /\ UNCHANGED <<crankStore, leaseStore, clock, engine, prev,
                 decimal, derived, curve, constructed, wrapper, executed,
                 others>>

(***************************************************************************)
(* The oracle specification: two callers send a heartbeat, once each, for  *)
(* an oracle of a queue of the remote store.                               *)
(***************************************************************************)
InitOracle ==
  /\ curve = "hash"
  /\ crankStore = NoAccount
  /\ leaseStore = [a \in LeaseAddresses |-> NoAccount]
  /\ clock = 8000
  /\ engine = [c \in Callers |-> "timsort"]
  /\ call = [c \in Callers |-> IdleOracleCall]
  /\ prev = NoCall
  /\ submitted = <<>>
  /\ decimal = <<>>
  /\ derived = <<>>
  /\ constructed = [class |-> "OracleAccount",
                    params |-> [program |-> ProgramId, publicKey |-> Undefined,
                                keypair |-> KeypairObject(OracleKey)]]
  /\ wrapper = OracleWrapper
  /\ executed = 0
  /\ accountStore \in
       {[oracle |-> o, queue |-> q] :
          o \in {OracleData, NoAccount}, q \in QueueDatas \cup {NoAccount}}
  /\ outcome = <<>>

NextOracle ==
  \E c \in Callers :
    \/ HeartbeatCall(c)
    \/ HeartbeatLoadOracle(c)
    \/ HeartbeatSubmit(c)

SpecOracle == InitOracle /\ [][NextOracle]_vars

(***************************************************************************)
(* SwitchboardError.fromCode.                                              *)
(***************************************************************************)
\* The entries an IDL lists under errors: code, name and, optionally, msg.
IdlErrorEntries ==
  [code : {6000, 6001}, name : {"QueueFull", "Expired"},
   msg : {Undefined, <<"no room">>}]

\* program.idl.errors: absent, or a list of entries (codes may repeat).
IdlErrorLists == {Undefined} \cup SeqsUpTo(IdlErrorEntries, MaxErrors)

\* The codes asked for.
ErrorCodes == {6000, 6001, 6002}

CouldNotFind(code) ==
  [error |-> <<"Could not find SwitchboardError for error code ", code>>]

\* The SwitchboardError made from the IDL entry e.
ErrorFrom(program, e) ==
  [program |-> program, name |-> e.name, code |-> e.code, msg |-> e.msg]

\* A loop that keeps the last entry with the code.
RECURSIVE FromCodeLast(_, _, _)
FromCodeLast(program, errors, code) ==
  IF errors \in {Undefined, <<>>} THEN CouldNotFind(code)
  ELSE IF errors[Len(errors)].code = code
  THEN ErrorFrom(program, errors[Len(errors)])
  ELSE FromCodeLast(program, SubSeq(errors, 1, Len(errors) - 1), code)

\* SwitchboardError.fromCode(program, code), errors being
\* program.idl.errors: the loop over (errors ?? []) returns at the first
\* entry with code === e.code, and the throw follows the loop.
RECURSIVE FromCode(_, _, _)
FromCode(program, errors, code) ==
  IF errors \in {Undefined, <<>>} THEN CouldNotFind(code)
  ELSE IF Head(errors).code = code THEN ErrorFrom(program, Head(errors))
  ELSE FromCode(program, Tail(errors), code)

\* A call of fromCode; the IDL of the program is outcome.errors.
FromCodeCall(code) ==
  /\ outcome.calls < MaxCalls
  /\ outcome' = [outcome EXCEPT
                   !.calls = @ + 1,
                   !.code = code,
                   !.result = FromCode(ProgramId, outcome.errors, code)]
  /\ UNCHANGED <<crankVars, decimal, derived, curve, constructed, wrapper,
                 executed, accountStore>>

InitError ==
  /\ curve = "hash"
  /\ crankStore = NoAccount
  /\ leaseStore = <<>>
  /\ clock = 8000
  /\ engine = [c \in Callers |-> "timsort"]
  /\ call = [c \in Callers |-> IdleCall]
  /\ prev = NoCall
  /\ submitted = <<>>
  /\ decimal = <<>>
  /\ derived = <<>>
  /\ constructed = NotConstructed
  /\ wrapper = NotConstructed
  /\ executed = 0
  /\ accountStore = <<>>
  /\ outcome \in [errors : IdlErrorLists, calls : {0}, code : {0},
                  result : {NotCalled}]

NextError == \E code \in ErrorCodes : FromCodeCall(code)

SpecError == InitError /\ [][NextError]_vars

(***************************************************************************)
(* Claims about peakReady, checked under SpecSelect.                       *)
(***************************************************************************)
\* Caller c holds the result of a peakReady call.
Returned(c) == call[c].op = "peak" /\ call[c].pc = "done"

\* The indices of the rows in use of a loaded crank.
InUse(crank) ==
  1..(IF crank.pqSize < Len(crank.pqData) THEN crank.pqSize
      ELSE Len(crank.pqData))

\* The rows in use whose nextTimestamp, as an integer, is <= sec.
ReadyAt(crank, sec) ==
  {j \in InUse(crank) : crank.pqData[j].nextTimestamp <= sec}

\* items holds exactly the pubkeys of the rows S of crank, each once per row.
HoldsRows(items, crank, S) ==
  /\ Len(items) = Cardinality(S)
  /\ \A k \in FeedKeys :
       Cardinality({i \in 1..Len(items) : items[i] = k})
         = Cardinality({j \in S : crank.pqData[j].pubkey = k})

\* C1: every pubkey peakReady returns belongs to a row in use whose
\* nextTimestamp, as an integer number of seconds, is <= now.
C1_OnlyDueReturned ==
  \A c \in Callers : Returned(c) =>
    \A i \in 1..Len(call[c].items) :
      \E j \in ReadyAt(call[c].peakCrank, call[c].now \div 1000) :
        call[c].peakCrank.pqData[j].pubkey = call[c].items[i]

\* C2: the returned rows are the most urgent ones: they are a choice S of
\* ready rows such that no ready row left out has a smaller nextTimestamp
\* than a row of S.
C2_MostUrgentSelected ==
  \A c \in Callers : Returned(c) =>
    LET crank == call[c].peakCrank
        ready == ReadyAt(crank, call[c].now \div 1000)
    IN Cardinality(ready) > call[c].limit =>
         \E S \in SUBSET ready :
           /\ HoldsRows(call[c].items, crank, S)
           /\ \A i \in S : \A j \in ready \ S :
                crank.pqData[i].nextTimestamp <= crank.pqData[j].nextTimestamp

\* C3: the returned sequence is sorted ascending by the unsigned
\* lexicographic order of the address bytes.
C3_SortedByAddressBytes ==
  \A c \in Callers : Returned(c) =>
    \A i, j \in 1..Len(call[c].items) :
      i < j => BufferCompare(call[c].items[i], call[c].items[j]) <= 0

\* C4: the result is no longer than the limit and no longer than the number
\* of rows in use with nextTimestamp <= now.
C4_LengthBounded ==
  \A c \in Callers : Returned(c) =>
    /\ Len(call[c].items) <= call[c].limit
    /\ Len(call[c].items)
         <= Cardinality(ReadyAt(call[c].peakCrank, call[c].now \div 1000))

\* C5 as stated: peakReady does not read the wall clock, so the result a
\* call returned is the one it would have returned had the clock shown any
\* other reading at that moment.
C5_ClockCannotChangeResult ==
  \A c \in Callers : Returned(c) =>
    \A t \in ClockReadings :
      PeakReadyItems(call[c].peakCrank, t, call[c].limit, engine[c])
        = call[c].items

\* The rows in use that pass the filter of peakReady for a clock reading:
\* nextTimestamp and the reading's whole second, both as decimal text.
PassFilter(crank, reading) ==
  {j \in InUse(crank) :
     ~StrLess(Digits(reading \div 1000), Digits(crank.pqData[j].nextTimestamp))}

\* C5 as amended: peakReady reads the wall clock itself, and that reading
\* decides the result: the returned pubkeys are those of rows in use that
\* pass the filter for the whole second of the reading, and all of them
\* when fewer than the limit are returned.
C5_ClockReadingDecides ==
  \A c \in Callers : Returned(c) =>
    LET crank == call[c].peakCrank
        pass == PassFilter(crank, call[c].now)
    IN /\ \E S \in SUBSET pass : HoldsRows(call[c].items, crank, S)
       /\ Len(call[c].items) < call[c].limit
            => HoldsRows(call[c].items, crank, pass)

\* C5 witness: a call read the clock within a second (not at its start),
\* returned a row and left out a row in use that did not pass the filter.
C5_Witness ==
  /\ Returned(1)
  /\ call[1].now % 1000 # 0
  /\ Len(call[1].items) > 0
  /\ \E t \in ClockReadings :
       PassFilter(call[1].peakCrank, t) # PassFilter(call[1].peakCrank, call[1].now)

\* C6 as stated: two calls with identical arguments on an unchanged crank
\* return identical sequences.
C6_Idempotent ==
  (Returned(1) /\ prev # NoCall /\ prev.limit = call[1].limit
     /\ prev.crank = call[1].peakCrank)
  => call[1].items = prev.items

\* C6 as amended: two calls with the same limit on an unchanged crank, both
\* reading the clock within the same second, return identical sequences.
C6_IdempotentWithinSecond ==
  (Returned(1) /\ prev # NoCall /\ prev.limit = call[1].limit
     /\ prev.crank = call[1].peakCrank
     /\ prev.now \div 1000 = call[1].now \div 1000)
  => call[1].items = prev.items

\* C6 witness: a second call with the same limit on the same crank, at a
\* later reading of the same second, returned the same non-empty sequence.
C6_Witness ==
  /\ Returned(1) /\ prev # NoCall
  /\ prev.limit = call[1].limit
  /\ prev.crank = call[1].peakCrank
  /\ prev.now < call[1].now
  /\ prev.now \div 1000 = call[1].now \div 1000
  /\ Len(call[1].items) > 0
  /\ call[1].items = prev.items

\* The cranks that hold the rows in use of crank in another order.
Reordered(crank) ==
  LET n == Cardinality(InUse(crank))
      perms == {p \in [1..n -> 1..n] : \A a, b \in 1..n : p[a] = p[b] => a = b}
  IN {[crank EXCEPT !.pqData = [i \in 1..n |-> crank.pqData[p[i]]],
                    !.pqSize = n] : p \in perms}

\* C7: the order of the result is canonical: when no more rows are ready
\* than the limit, a crank that holds the same rows in another order gives
\* the same sequence.
C7_CanonicalOrder ==
  \A c \in Callers : Returned(c) =>
    LET crank == call[c].peakCrank IN
    Cardinality(ReadyAt(crank, call[c].now \div 1000)) <= call[c].limit =>
      \A other \in Reordered(crank) :
        PeakReadyItems(other, call[c].now, call[c].limit, engine[c])
          = call[c].items

\* C11: an empty crank (pqSize = 0), or one with no row in use whose
\* nextTimestamp is <= now, makes peakReady return the empty sequence; and
\* a peakReady call on a crank account that exists never ends in an error.
C11_EmptyWhenNothingDue ==
  /\ \A c \in Callers : Returned(c) =>
       (ReadyAt(call[c].peakCrank, call[c].now \div 1000) = {}
          => call[c].items = <<>>)
  /\ \A c \in Callers :
       (call[c].op = "peak" /\ call[c].pc = "failed") => crankStore = NoAccount

\* C12: when the limit is at least the number of ready rows, the result
\* holds exactly the pubkeys of the rows in use with nextTimestamp <= now,
\* each once per row.
C12_AllReadyReturned ==
  \A c \in Callers : Returned(c) =>
    LET crank == call[c].peakCrank
        ready == ReadyAt(crank, call[c].now \div 1000)
    IN call[c].limit >= Cardinality(ready)
         => HoldsRows(call[c].items, crank, ready)

\* C27: peakReady returns at most pqSize pubkeys, each the pubkey of one of
\* the first pqSize rows of pqData, and of a row of its own: a row at an
\* index from pqSize on is never returned, whatever its nextTimestamp.
C27_OnlyRowsInUse ==
  \A c \in Callers : Returned(c) =>
    LET crank == call[c].peakCrank
        items == call[c].items
    IN /\ Len(items) <= crank.pqSize
       /\ \E row \in [1..Len(items) -> InUse(crank)] :
            /\ \A i, j \in 1..Len(items) : i # j => row[i] # row[j]
            /\ \A i \in 1..Len(items) : crank.pqData[row[i]].pubkey = items[i]

\* C27 witness: a crank holds two rows, one in use, and the row behind it,
\* of another aggregator, has the smaller nextTimestamp and is due;
\* peakReady returned the pubkey of the row in use alone.
C27_Witness ==
  \E c \in Callers :
    /\ Returned(c)
    /\ call[c].peakCrank.pqSize = 1
    /\ Len(call[c].peakCrank.pqData) = 2
    /\ call[c].peakCrank.pqData[2].pubkey # call[c].peakCrank.pqData[1].pubkey
    /\ call[c].peakCrank.pqData[2].nextTimestamp
         < call[c].peakCrank.pqData[1].nextTimestamp
    /\ call[c].peakCrank.pqData[2].nextTimestamp <= call[c].now \div 1000
    /\ call[c].items = <<call[c].peakCrank.pqData[1].pubkey>>

(***************************************************************************)
(* Claims about pop, checked under Spec.                                   *)
(***************************************************************************)
\* The requests caller c handed to program.rpc.crankPop.
SubmittedBy(c) == {k \in 1..Len(submitted) : submitted[k].caller = c}

\* The pubkeys of a submitted remainingAccounts list.
Pubkeys(metas) == [i \in 1..Len(metas) |-> metas[i].pubkey]

\* a and b hold the same addresses, each as often in a as in b.
SameBag(a, b) ==
  /\ Len(a) = Len(b)
  /\ \A i \in 1..Len(a) :
       Cardinality({j \in 1..Len(a) : a[j] = a[i]})
         = Cardinality({j \in 1..Len(b) : b[j] = a[i]})

\* Address a is not after address b in the unsigned lexicographic order of
\* their bytes.
RECURSIVE BytesNotAfter(_, _)
BytesNotAfter(a, b) ==
  IF a = <<>> THEN TRUE
  ELSE IF b = <<>> THEN FALSE
  ELSE IF Head(a) # Head(b) THEN Head(a) < Head(b)
  ELSE BytesNotAfter(Tail(a), Tail(b))

\* The address whose bump is the largest of 1..255 that gives an address
\* off the curve (in the world "hash"), for the seeds of the lease of a
\* feed and a queue in the order pop passes them.
ExpectedLease(feed, queue) ==
  LET seeds == LeaseSeed \o feed \o queue
      off == {n \in 1..255 : ~HashOnCurve(Candidate(seeds, ProgramId, n))}
  IN Candidate(seeds, ProgramId, CHOOSE n \in off : \A m \in off : m <= n)

ExpectedLeases == [f \in AllFeedKeys |-> ExpectedLease(f, QueueKey)]

\* C8: the remainingAccounts list pop submits holds, for each selected
\* target, the target, the lease address derived for it and the crank's
\* queue, and the escrow stored in that lease: 3 x len(selected) addresses,
\* sorted ascending by their bytes.
C8_PopAccountList ==
  \A k \in 1..Len(submitted) :
    LET c == submitted[k].caller
        selected == call[c].items
    IN /\ call[c].popCrank.queuePubkey = QueueKey
       /\ \A leases \in {[i \in 1..Len(selected) |->
                            ExpectedLeases[selected[i]]]} :
          \A escrows \in {[i \in 1..Len(selected) |->
                              leaseStore[leases[i]].escrow]} :
          \A keys \in {Pubkeys(submitted[k].remainingAccounts)} :
            /\ Len(keys) = 3 * Len(selected)
            /\ SameBag(keys, selected \o leases \o escrows)
            /\ \A i, j \in 1..Len(keys) : i < j => BytesNotAfter(keys[i], keys[j])

\* C8 witness: a list of six addresses was submitted, in another order than
\* the one in which pop collected them.
C8_Witness ==
  \E k \in 1..Len(submitted) :
    LET c == submitted[k].caller
        keys == Pubkeys(submitted[k].remainingAccounts)
    IN /\ Len(call[c].items) = 2
       /\ Len(keys) = 6
       /\ keys # call[c].items
                   \o <<call[c].fetched[1].lease, call[c].fetched[1].escrow,
                        call[c].fetched[2].lease, call[c].fetched[2].escrow>>

\* The selected targets of caller c whose lease the remote store does not hold.
MissingLeases(c) ==
  {i \in 1..Len(call[c].items) :
     leaseStore[ExpectedLeases[call[c].items[i]]] = NoAccount}

\* C9: when the lease of a selected target cannot be fetched, pop fails
\* with an error and submits nothing: the loop never passes the target, the
\* call never ends in success, and no crankPop request of the caller exists.
C9_MissingLeaseAborts ==
  \A c \in Callers :
    (call[c].op = "pop" /\ call[c].pc \in {"pop_lease", "done", "failed"})
    => \A missing \in {MissingLeases(c)} :
         missing # {}
         => /\ call[c].pc # "done"
            /\ SubmittedBy(c) = {}
            /\ \A i \in missing : call[c].idx <= i
            /\ call[c].pc = "failed" => call[c].error = "Account does not exist"

\* C9 witness: a pop failed on the lease of its second target, after the
\* lease and escrow of the first were collected, and submitted nothing.
C9_Witness ==
  \E c \in Callers :
    /\ call[c].op = "pop" /\ call[c].pc = "failed"
    /\ call[c].error = "Account does not exist"
    /\ Len(call[c].fetched) = 1
    /\ Len(call[c].remainingAccounts) > Len(call[c].items)
    /\ MissingLeases(c) = {2}
    /\ SubmittedBy(c) = {}

\* C10: two callers that popped the same crank snapshot at the same
\* reference time (and with the same limit) submitted the same
\* remainingAccounts list and the same instruction arguments.
C10_CallersConverge ==
  \A k1, k2 \in 1..Len(submitted) :
    LET c1 == submitted[k1].caller
        c2 == submitted[k2].caller
    IN (/\ call[c1].popCrank = call[c2].popCrank
        /\ call[c1].peakCrank = call[c2].peakCrank
        /\ call[c1].popCrank = call[c1].peakCrank
        /\ call[c1].now \div 1000 = call[c2].now \div 1000
        /\ call[c1].limit = call[c2].limit)
       => /\ submitted[k1].remainingAccounts = submitted[k2].remainingAccounts
          /\ submitted[k1].args = submitted[k2].args

(***************************************************************************)
(* Claims about SwitchboardDecimal, checked under SpecDecimal.             *)
(***************************************************************************)
\* C13: eq returns true iff the mantissas are equal and the scales are
\* equal; it is reflexive, symmetric and transitive, and (10, 2) is not eq
\* to (1, 1).
C13_EqIsFieldwise ==
  (decimal # <<>> /\ decimal.eq # NotCalled) =>
    LET x == decimal.operands
        eq == decimal.eq
    IN /\ \A i, j \in 1..3 :
            eq[i][j] <=> (x[i].mantissa = x[j].mantissa /\ x[i].scale = x[j].scale)
       /\ \A i \in 1..3 : eq[i][i]
       /\ \A i, j \in 1..3 : eq[i][j] => eq[j][i]
       /\ \A i, j, k \in 1..3 : (eq[i][j] /\ eq[j][k]) => eq[i][k]
       /\ \A i, j \in 1..3 :
            (x[i] = [mantissa |-> 10, scale |-> 2]
               /\ x[j] = [mantissa |-> 1, scale |-> 1]) => ~eq[i][j]

\* C13 witness: eq was applied to 10 x 10^-2, 1 x 10^-1 and a second
\* 10 x 10^-2: the first two are not eq, the first and the third are.
C13_Witness ==
  /\ decimal # <<>> /\ decimal.eq # NotCalled
  /\ decimal.operands[1] = [mantissa |-> 10, scale |-> 2]
  /\ decimal.operands[2] = [mantissa |-> 1, scale |-> 1]
  /\ decimal.operands[3] = [mantissa |-> 10, scale |-> 2]
  /\ ~decimal.eq[1][2] /\ decimal.eq[1][3]

Pow10(k) == IF k <= 0 THEN 1 ELSE CoefficientValue(<<1>> \o [i \in 1..k |-> 0])

CandidateTable ==
  [i \in SeedInputs |-> [n \in 0..255 |-> Candidate(SeedsOf(i), ProgramId, n)]]

\* The bumps whose candidate address is off the curve.
OffCurveBumps(input) ==
  {n \in 0..255 : ~IsOnCurve(CandidateTable[input][n])}

\* C16: a derivation always ends: in the error of the exhausted search, or
\* in the largest bump whose candidate is off the curve and that candidate
\* (the candidates are tried from 255 down); it ends in the error when no
\* bump of 0..255 gives an address off the curve.
C16_DerivationEnds ==
  (derived # <<>> /\ derived.last # NotCalled) =>
    \A off \in {OffCurveBumps(derived.last.input)} :
      LET r == derived.last.result IN
      /\ \/ r = DerivationExhausted
         \/ /\ DOMAIN r = {"publicKey", "bump"}
            /\ r.bump \in off
            /\ \A n \in off : n <= r.bump
            /\ r.publicKey = CandidateTable[derived.last.input][r.bump]
      /\ off = {} => r = DerivationExhausted
      /\ off \ {0} # {} => r # DerivationExhausted

\* C16 witness: every candidate of a lease's seeds is on the curve and the
\* call ended in the error.
C16_Witness ==
  /\ derived # <<>> /\ derived.last # NotCalled
  /\ derived.last.input[1] = "lease"
  /\ OffCurveBumps(derived.last.input) = {}
  /\ derived.last.result = DerivationExhausted

(***************************************************************************)
(* Claims about the wrappers and their remote effects, checked under       *)
(* SpecClient.                                                             *)
(***************************************************************************)
\* The public keys a request hands over as remaining accounts.
HandedKeys(request) ==
  {request.remainingAccounts[i].pubkey : i \in 1..Len(request.remainingAccounts)}

\* The lease pop looks up for the feed on the crank.
ClientLease == PopLeaseAddress(ClientFeed, QueueKey)

\* C17: every call of pop starts with nothing fetched, takes the crank from
\* the remote store as it is when the call loads it, takes each selected
\* feed's escrow from the lease as the store holds it when the call fetches
\* it, and submits those escrows for all the selected feeds: the escrow
\* submitted for a feed is the one the store held during that call.
C17_PopFetchesAfresh ==
  [][\A c \in Callers :
       /\ (call[c].pc = "idle" /\ call'[c].op = "pop")
            => /\ call'[c].fetched = <<>>
               /\ call'[c].popCrank = NoCrank
       /\ (call[c].pc = "pop_load" /\ call'[c].pc = "peak_load")
            => /\ crankStore # NoAccount
               /\ call'[c].popCrank.pqData = crankStore.pqData
               /\ call'[c].popCrank.pqSize = crankStore.pqSize
               /\ call'[c].popCrank.queuePubkey = crankStore.queuePubkey
       /\ (call[c].pc = "pop_lease" /\ call'[c].pc = "pop_lease"
             /\ call'[c] # call[c])
            => /\ Len(call'[c].fetched) = Len(call[c].fetched) + 1
               /\ LET f == call'[c].fetched[Len(call'[c].fetched)]
                  IN /\ f.feed = call[c].items[Len(call'[c].fetched)]
                     /\ leaseStore[f.lease] # NoAccount
                     /\ f.escrow = leaseStore[f.lease].escrow
       /\ (call[c].pc = "pop_lease" /\ call'[c].pc = "done")
            => /\ Len(submitted') = Len(submitted) + 1
               /\ Len(call[c].fetched) = Len(call[c].items)
               /\ \A i \in 1..Len(call[c].fetched) :
                    call[c].fetched[i].escrow
                      \in HandedKeys(submitted'[Len(submitted')])
    ]_vars

\* C17 witness: a caller's second pop has submitted the escrow the lease
\* was given after the caller's first pop, which had submitted the escrow
\* the lease held before.
C17_Witness ==
  /\ Len(submitted) = 2
  /\ submitted[1].method = "crankPop"
  /\ submitted[2].method = "crankPop"
  /\ submitted[1].caller = submitted[2].caller
  /\ EscrowOf(ClientLease) \in HandedKeys(submitted[1])
  /\ MovedEscrow(ClientLease) \notin HandedKeys(submitted[1])
  /\ MovedEscrow(ClientLease) \in HandedKeys(submitted[2])
  /\ EscrowOf(ClientLease) \notin HandedKeys(submitted[2])
  /\ leaseStore[ClientLease].escrow = MovedEscrow(ClientLease)

RowsInUse(store) == SubSeq(store.pqData, 1, store.pqSize)

\* Every row of before is still there, in its place, in after.
KeepsRows(before, after) ==
  /\ Len(before) <= Len(after)
  /\ \A i \in 1..Len(before) : after[i] = before[i]

\* C19: a step of loadData or peakReady submits no request and leaves the
\* crank account as it is; the only requests submitted are the crankPush of
\* a push, naming the wrapper's crank and the pushed aggregator and nothing
\* else, and the crankPop of a pop; submitting changes no row; a row leaves
\* the crank only when the remote program runs a crankPop request, and a
\* crankPush it runs adds one row, of the pushed aggregator, after the rows
\* there.
C19_RowsLeaveOnlyThroughPop ==
  [][/\ \A c \in Callers :
          (call'[c] # call[c]
             /\ (call[c].op \in {"peak", "load"}
                   \/ call'[c].op \in {"peak", "load"}))
            => /\ submitted' = submitted
               /\ crankStore' = crankStore
     /\ submitted' # submitted
          => /\ crankStore' = crankStore
             /\ Len(submitted') = Len(submitted) + 1
             /\ KeepsRows(submitted, submitted')
             /\ \E c \in Callers :
                  LET request == submitted'[Len(submitted')]
                  IN /\ request.caller = c
                     /\ \/ /\ call[c].pc = "idle" /\ call'[c].op = "push"
                           /\ request.method = "crankPush"
                           /\ request.accounts =
                                [crank |-> wrapper.publicKey.bytes,
                                 aggregator |-> PushedFeed]
                           /\ request.remainingAccounts = <<>>
                        \/ /\ call[c].op = "pop" /\ call[c].pc = "pop_lease"
                           /\ request.method = "crankPop"
     /\ crankStore' # crankStore
          => /\ executed' = executed + 1
             /\ submitted[executed'].method \in {"crankPush", "crankPop"}
             /\ submitted[executed'].method = "crankPush"
                  => /\ Len(RowsInUse(crankStore'))
                          = Len(RowsInUse(crankStore)) + 1
                     /\ KeepsRows(RowsInUse(crankStore), RowsInUse(crankStore'))
                     /\ RowsInUse(crankStore')[crankStore'.pqSize].pubkey
                          = submitted[executed'].accounts.aggregator
    ]_vars

\* C19 witness: a push and then a pop were submitted and run, a peakReady
\* of another call has the pushed feed among the ready ones, and the pop,
\* which handed over the pushed feed, has emptied the crank.
C19_Witness ==
  /\ Len(submitted) = 2
  /\ executed = 2
  /\ submitted[1].method = "crankPush"
  /\ submitted[1].accounts.aggregator = PushedFeed
  /\ submitted[2].method = "crankPop"
  /\ PushedFeed \in HandedKeys(submitted[2])
  /\ \E d \in Callers :
       /\ call[d].op = "peak" /\ call[d].pc = "done"
       /\ \E i \in 1..Len(call[d].items) : call[d].items[i] = PushedFeed
  /\ crankStore.pqSize = 0

\* C20: a constructor call with neither a publicKey nor a keypair throws
\* the error that asks for one of them; a constructor that returned left a
\* wrapper, of any of the eight classes, whose publicKey is a public key
\* (not undefined, not null); and when only a keypair was given, that
\* publicKey has the bytes of the keypair's public key.
C20_PublicKeyPopulated ==
  constructed # NotConstructed =>
    LET params == constructed.params
    IN /\ (params.publicKey = Undefined /\ params.keypair = Undefined)
            => wrapper = MustProvide(constructed.class)
       /\ IsWrapper(wrapper)
            => /\ wrapper.class = constructed.class
               /\ wrapper.publicKey \notin {Undefined, Null}
               /\ wrapper.publicKey.bytes \in {CrankKey, OtherKeypair.publicKeyBytes}
               /\ (params.publicKey = Undefined /\ params.keypair # Undefined)
                    => wrapper.publicKey.bytes = params.keypair.publicKeyBytes

\* C20 witness: a LeaseAccount was constructed from the keypair of another
\* account alone, and the constructor returned.
C20_Witness ==
  /\ constructed # NotConstructed
  /\ constructed.class = "LeaseAccount"
  /\ constructed.params.publicKey = Undefined
  /\ constructed.params.keypair = OtherKeypair
  /\ IsWrapper(wrapper)
  /\ wrapper.publicKey.bytes = OtherKeypair.publicKeyBytes

(***************************************************************************)
(* Further claims about pop, checked under Spec.                           *)
(***************************************************************************)
\* The bump and the address derived from the seed "SB_STATE_V1": the
\* largest bump of 1..255 whose candidate is off the curve (in the world
\* "hash"), and that candidate.
ExpectedState ==
  LET table == [n \in 1..255 |-> Candidate(StateSeed, ProgramId, n)]
      off == {n \in 1..255 : ~HashOnCurve(table[n])}
      bump == CHOOSE n \in off : \A m \in off : m <= n
  IN [bump |-> bump, address |-> table[bump]]

\* C21: the arguments of every crankPop request pop submits are the one
\* field stateBump, holding the bump derived from the seed "SB_STATE_V1",
\* and the programState account of the request is the address derived with
\* that bump.
C21_PopPayload ==
  \A k \in 1..Len(submitted) :
    submitted[k].method = "crankPop"
    => /\ DOMAIN submitted[k].args = {"stateBump"}
       /\ submitted[k].args.stateBump = ExpectedState.bump
       /\ submitted[k].accounts.programState = ExpectedState.address

\* C21 witness: both callers have submitted a crankPop request, one of them
\* with accounts to pop.
C21_Witness ==
  /\ Len(submitted) = 2
  /\ submitted[1].method = "crankPop"
  /\ submitted[2].method = "crankPop"
  /\ submitted[1].caller # submitted[2].caller
  /\ \E k \in 1..2 : Len(submitted[k].remainingAccounts) > 0

\* C22: for every aggregator a pop call selected on a crank of queue Q, the
\* address LeaseAccount.create initialises for target = the aggregator and
\* leaser = Q is the address pop fetches for it and the address openRound
\* fetches for it and Q; so a pop on a store whose leases were all
\* initialised by create does not fail for a missing account.
C22_OneLeaseAddress ==
  \A c \in Callers :
    (call[c].op = "pop" /\ call[c].pc \in {"pop_lease", "done", "failed"})
    => /\ \A i \in 1..Len(call[c].items) :
            LET A == call[c].items[i]
                Q == call[c].popCrank.queuePubkey
            IN /\ CreatedLeaseAddress(Q, A) = PopLeaseAddress(A, Q)
               /\ CreatedLeaseAddress(Q, A) = OpenRoundLeaseAddress(A, Q)
       /\ (\A f \in AllFeedKeys :
             leaseStore[CreatedLeaseAddress(QueueKey, f)] # NoAccount)
            => ~(call[c].pc = "failed"
                   /\ call[c].error = "Account does not exist"
                   /\ call[c].popCrank # NoCrank)

\* C24: a pop call selects at most 10 aggregators, whatever the number of
\* ready rows, the remainingAccounts list of a crankPop request has at most
\* 30 entries, and every entry is marked not signer and writable.
C24_PopBounded ==
  /\ \A c \in Callers :
       call[c].op = "pop" => Len(call[c].items) <= 10
  /\ \A k \in 1..Len(submitted) :
       submitted[k].method = "crankPop"
       => /\ Len(submitted[k].remainingAccounts) <= 30
          /\ \A i \in 1..Len(submitted[k].remainingAccounts) :
               /\ submitted[k].remainingAccounts[i].isSigner = FALSE
               /\ submitted[k].remainingAccounts[i].isWritable = TRUE

\* C24 witness: a pop on a crank with eleven ready rows has submitted a
\* list of thirty entries.
C24_Witness ==
  \E k \in 1..Len(submitted) :
    /\ crankStore # NoAccount
    /\ crankStore.pqSize = 11
    /\ Len(call[submitted[k].caller].peakCrank.pqData) = 11
    /\ Len(call[submitted[k].caller].items) = 10
    /\ Len(submitted[k].remainingAccounts) = 30

(***************************************************************************)
(* Further claims about pop among other parties, checked under SpecClient. *)
(***************************************************************************)
\* C23: a pop call works on one snapshot of the crank: the crank state its
\* queue key comes from (the one pop loaded) is the crank state its ready
\* entries were selected from (the one peakReady loaded), also when the
\* remote crank changed while the call was running.
C23_SingleSnapshot ==
  \A c \in Callers :
    (call[c].op = "pop" /\ call[c].pc \in {"peak_now", "pop_lease", "done"})
    => call[c].peakCrank = call[c].popCrank

\* C25: a constructor given both a publicKey and a keypair returns a
\* wrapper exactly when the publicKey has the bytes of the keypair's public
\* key, and throws the mismatch error exactly when the bytes differ.
C25_BothGiven ==
  (/\ constructed # NotConstructed
   /\ constructed.params.publicKey \notin {Undefined, Null}
   /\ constructed.params.keypair \notin {Undefined, Null})
  => LET sameKey == constructed.params.publicKey.bytes
                      = constructed.params.keypair.publicKeyBytes
     IN /\ IsWrapper(wrapper) <=> sameKey
        /\ wrapper = Mismatch(constructed.class) <=> ~sameKey

(***************************************************************************)
(* Claims about the aggregator's methods, checked under SpecAggregator.    *)
(***************************************************************************)
\* C26: the jobsHash argument of every aggregatorSaveResult request is the
\* completed hash over the jobs the aggregator lists, not a computation
\* still pending: produceJobsHash had finished when the request was made.
C26_HashCompleted ==
  \A k \in 1..Len(submitted) :
    submitted[k].method = "aggregatorSaveResult"
    => LET data == call[submitted[k].caller].data
       IN /\ submitted[k].args.jobsHash # PendingPromise
          /\ submitted[k].args.jobsHash
               = HashObject([i \in 1..data.jobPubkeysSize |->
                               JobBytes(data.jobPubkeysData[i])])

\* The aggregator holds no value: no latestConfirmedRound, or no numSuccess
\* in it, or numSuccess 0.
WithoutValue(aggregator) ==
  \/ aggregator.latestConfirmedRound = Undefined
  \/ aggregator.latestConfirmedRound = Null
  \/ "numSuccess" \notin DOMAIN aggregator.latestConfirmedRound
  \/ aggregator.latestConfirmedRound.numSuccess = Null
  \/ aggregator.latestConfirmedRound.numSuccess = Num(0)

\* C28: a getLatestValue call that was passed an aggregator makes no remote
\* read; on an aggregator without value (the one passed, or else the one
\* stored) the call fails with 'Aggregator currently holds no value.'; and
\* a call that returned a value had an aggregator with numSuccess non-zero.
C28_LatestValue ==
  \A c \in Callers :
    (call[c].op = "getLatestValue" /\ call[c].pc \in {"done", "failed"})
    => LET passed == call[c].preloaded \notin {Undefined, Null}
           judged == IF passed THEN call[c].preloaded
                     ELSE accountStore.aggregator
       IN /\ passed => call[c].fetches = 0
          /\ ~passed => call[c].fetches = 1
          /\ judged # NoAccount
               => /\ WithoutValue(judged)
                       => /\ call[c].pc = "failed"
                          /\ call[c].returned = HoldsNoValueError
                  /\ call[c].pc = "done"
                       => /\ ~WithoutValue(judged)
                          /\ judged.latestConfirmedRound.numSuccess # Num(0)
                          /\ DOMAIN call[c].returned = {"value"}

\* C28 witness: one caller passed an aggregator with numSuccess 2 and got
\* its value without a read, the other passed none and failed, after one
\* read, on a stored aggregator whose round has no numSuccess.
C28_Witness ==
  \E c, d \in Callers :
    /\ call[c].op = "getLatestValue" /\ call[c].pc = "done"
    /\ call[c].preloaded \notin {Undefined, Null}
    /\ call[c].fetches = 0
    /\ call[c].returned = [value |-> [num |-> 12345, den |-> 100]]
    /\ call[d].op = "getLatestValue" /\ call[d].pc = "failed"
    /\ call[d].preloaded = Undefined
    /\ call[d].fetches = 1
    /\ accountStore.aggregator # NoAccount
    /\ accountStore.aggregator.latestConfirmedRound \notin {Undefined, Null}
    /\ "numSuccess" \notin DOMAIN accountStore.aggregator.latestConfirmedRound
    /\ call[d].returned = HoldsNoValueError

(***************************************************************************)
(* Claims about heartbeat, checked under SpecOracle.                       *)
(***************************************************************************)
\* The heartbeat requests submitted so far.
Heartbeats ==
  {i \in 1..Len(submitted) : submitted[i].method = "oracleHeartbeat"}

\* C29: every heartbeat request names as gcOracle the entry queue[size - 1]
\* of the queue of the oracle when size is not 0 and the heartbeating
\* oracle itself when size is 0, and the call that submitted it read no
\* index of the queue outside 0..size - 1.
C29_GcOracleIsLast ==
  \A i \in Heartbeats :
    LET queue == accountStore.queue
        c == submitted[i].caller
    IN /\ submitted[i].accounts.oracle = OracleKey
       /\ submitted[i].accounts.oracleQueue = QueueKey
       /\ queue.size # 0 =>
            /\ submitted[i].accounts.gcOracle = queue.queue[queue.size]
            /\ call[c].reads = {queue.size - 1}
       /\ queue.size = 0 =>
            /\ submitted[i].accounts.gcOracle = OracleKey
            /\ call[c].reads = {}
       /\ call[c].reads \subseteq 0..(queue.size - 1)

\* Heartbeats were sent for a full queue whose last oracle is neither its
\* first oracle nor the heartbeating oracle.
C29_Witness ==
  /\ Heartbeats # {}
  /\ accountStore.queue.size = MaxQueue
  /\ accountStore.queue.queue[MaxQueue] \notin
       {OracleKey, accountStore.queue.queue[1]}
  /\ \A i \in Heartbeats :
       submitted[i].accounts.gcOracle = accountStore.queue.queue[MaxQueue]

(***************************************************************************)
(* Claims about SwitchboardError.fromCode, checked under SpecError.        *)
(***************************************************************************)
\* The positions of the entries of the error list that have the code.
EntriesWith(errors, code) ==
  IF errors = Undefined THEN {}
  ELSE {i \in 1..Len(errors) : errors[i].code = code}

\* The least member of a non-empty set of positions.
First(S) == CHOOSE i \in S : \A j \in S : i <= j

\* C30: fromCode returns an error with the requested code and the name
\* and msg of the first entry of the error list that has the code, and
\* throws 'Could not find SwitchboardError' exactly when no entry has the
\* code, an absent error list included.
C30_FromCode ==
  outcome.calls > 0 =>
    LET found == EntriesWith(outcome.errors, outcome.code)
    IN /\ found = {} <=> outcome.result = CouldNotFind(outcome.code)
       /\ found = {} <=> "error" \in DOMAIN outcome.result
       /\ found # {} =>
            /\ outcome.result.code = outcome.code
            /\ outcome.result.name = outcome.errors[First(found)].name
            /\ outcome.result.msg = outcome.errors[First(found)].msg
            /\ outcome.result.program = ProgramId

\* fromCode returned for a code that two entries with different names have.
C30_Witness ==
  /\ outcome.calls > 0
  /\ outcome.errors # Undefined
  /\ Len(outcome.errors) = 2
  /\ outcome.errors[1].code = outcome.code
  /\ outcome.errors[2].code = outcome.code
  /\ outcome.errors[1].name # outcome.errors[2].name
  /\ outcome.result = ErrorFrom(ProgramId, outcome.errors[1])
====
